---------------------------- MODULE Spec2Model ----------------------------
(***************************************************************************)
(* A model of vaiae (src/src/vaiae): the YAML profile loader (util.py),    *)
(* the Core library object (core.py) and the click command line            *)
(* (commands.py), together with the remote agent-engine platform they      *)
(* talk to.                                                                *)
(*                                                                         *)
(* Python values are tagged records [t, v]:                                *)
(*    t = "s"  a str,          v the string                                *)
(*    t = "l"  a list of str,  v the sequence                              *)
(*    t = "m"  a dict,         v a function from keys to values            *)
(*    t = "n"  None                                                        *)
(*    t = "b"  a bool                                                      *)
(*    t = "o"  an imported object, v its import path                       *)
(* Dicts that the program mutates in place live in a heap of dict objects  *)
(* (a sequence; an address is an index); a heap cell holding a dict is a   *)
(* reference [t |-> "r", v |-> address].                                   *)
(***************************************************************************)
EXTENDS Integers, Sequences, FiniteSets, TLC

VARIABLES
    heap,        \* the dict objects of the library process
    mg,          \* SpecMerge: one call of Core._apply_overrides
    document,    \* the YAML file at yaml_file_path
    fs,          \* SpecFind: the files at the given path, in the current and the home directory
    core,        \* the Core object of the library process
    remote,      \* the platform: the agent engines deployed, in list order
    calls,       \* the calls the last operation made to vertexai and the platform
    last,        \* the last library call: its arguments, exception and result
    sys_stderr,  \* what sys.stderr is in the library process
    loggers,     \* the loggers of the logging module, by name
    cli          \* the last run of the command line: output and exit code

vars == <<heap, mg, document, fs, core, remote, calls, last, sys_stderr, loggers, cli>>

---------------------------------------------------------------------------
(* Python values *)

S(x) == [t |-> "s", v |-> x]
L(x) == [t |-> "l", v |-> x]
M(f) == [t |-> "m", v |-> f]
B(x) == [t |-> "b", v |-> x]
I(x) == [t |-> "i", v |-> x]
Ref(a) == [t |-> "r", v |-> a]
None == [t |-> "n", v |-> "None"]

EmptyDict == [k \in {} |-> None]

\* dict[k] = c
Put(obj, k, c) == [x \in (DOMAIN obj) \cup {k} |-> IF x = k THEN c ELSE obj[x]]

\* isinstance(value, dict), for a heap cell and for a value
IsDictCell(c) == c.t = "r"
IsDict(x) == x.t = "m"

---------------------------------------------------------------------------
(* The heap: building a dict (yaml.safe_load, a caller's literal), reading *)
(* it back as a value, copy.deepcopy.                                      *)

RECURSIVE StoreDict(_, _), StoreItems(_, _, _, _)
\* allocate the dict f (a function from keys to values) and the dicts in it;
\* the result is the new heap and the address of the new dict
StoreDict(h, f) ==
    StoreItems(Append(h, EmptyDict), Len(h) + 1, f, DOMAIN f)

StoreItems(h, a, f, ks) ==
    IF ks = {} THEN [h |-> h, a |-> a]
    ELSE LET k == CHOOSE x \in ks : TRUE
         IN IF IsDict(f[k])
            THEN LET r == StoreDict(h, f[k].v)
                 IN StoreItems([r.h EXCEPT ![a] = Put(@, k, Ref(r.a))], a, f, ks \ {k})
            ELSE StoreItems([h EXCEPT ![a] = Put(@, k, f[k])], a, f, ks \ {k})

RECURSIVE Deref(_, _)
\* the value of the dict at address a
Deref(h, a) ==
    [k \in DOMAIN h[a] |->
        IF IsDictCell(h[a][k]) THEN M(Deref(h, h[a][k].v)) ELSE h[a][k]]

RECURSIVE Reach(_, _)
\* the addresses of the dict at a and of every dict nested in it
Reach(h, a) ==
    {a} \cup UNION {Reach(h, h[a][k].v) : k \in {x \in DOMAIN h[a] : IsDictCell(h[a][x])}}

RECURSIVE deepcopy(_, _), deepcopyItems(_, _, _, _)
\* copy.deepcopy of the dict at src: a new dict whose nested dicts are new too
deepcopy(h, src) ==
    deepcopyItems(Append(h, EmptyDict), Len(h) + 1, src, DOMAIN h[src])

deepcopyItems(h, a, src, ks) ==
    IF ks = {} THEN [h |-> h, a |-> a]
    ELSE LET k == CHOOSE x \in ks : TRUE
         IN IF IsDictCell(h[src][k])
            THEN LET r == deepcopy(h, h[src][k].v)
                 IN deepcopyItems([r.h EXCEPT ![a] = Put(@, k, Ref(r.a))], a, src, ks \ {k})
            ELSE deepcopyItems([h EXCEPT ![a] = Put(@, k, h[src][k])], a, src, ks \ {k})

\* copy.copy of the dict at src: a new dict holding the same cells, so a
\* nested dict is shared with the original
shallowcopy(h, src) == [h |-> Append(h, h[src]), a |-> Len(h) + 1]

---------------------------------------------------------------------------
(* Core._apply_overrides *)

\* a deep_update that merges nothing: every override value replaces the
\* record's value, as dict.update does
MergeNever(h, base, key, value) == FALSE

\* a deep_update that merges a mapping only where it shares no key with the
\* override's, and replaces it otherwise
MergeDisjoint(h, base, key, value) ==
    /\ IsDictCell(value)
    /\ key \in DOMAIN h[base]
    /\ IsDictCell(h[base][key])
    /\ DOMAIN h[h[base][key].v] \cap DOMAIN h[value.v] = {}

\* the test of deep_update's if: the override value is a dict, the key is in
\* the base dict, and the base's value is a dict
MergeHere(h, base, key, value) ==
    /\ IsDictCell(value)
    /\ key \in DOMAIN h[base]
    /\ IsDictCell(h[base][key])

RECURSIVE deep_update(_, _, _), deep_updateItems(_, _, _, _)
\* deep_update(base_dict, update_dict): the loop over update_dict.items()
deep_update(h, base, upd) == deep_updateItems(h, base, upd, DOMAIN h[upd])

deep_updateItems(h, base, upd, ks) ==
    IF ks = {} THEN h
    ELSE LET key == CHOOSE x \in ks : TRUE
             value == h[upd][key]
         IN IF MergeHere(h, base, key, value)
            THEN deep_updateItems(deep_update(h, h[base][key].v, value.v), base, upd, ks \ {key})
            ELSE deep_updateItems([h EXCEPT ![base] = Put(@, key, value)], base, upd, ks \ {key})

\* updated_config = copy.copy(config)
CopyConfigShallow(h, config) == shallowcopy(h, config)

\* updated_config = copy.deepcopy(config)
CopyConfig(h, config) == deepcopy(h, config)

\* an _apply_overrides that merges into the configuration it was given
apply_overrides_in_place(h, config, overrides) ==
    [h |-> deep_update(h, config, overrides), a |-> config]

\* _apply_overrides(config, overrides): the new heap and the address returned
apply_overrides(h, config, overrides) ==
    LET c == CopyConfig(h, config)
    IN [h |-> deep_update(c.h, c.a, overrides), a |-> c.a]

---------------------------------------------------------------------------
(* Python: truth values, dict.get, str() of a list of str, exceptions *)

T(q) == [t |-> "t", v |-> q]        \* a tuple
Obj(x) == [t |-> "o", v |-> x]      \* an object, named by where it comes from
Absent == [t |-> "-", v |-> ""]     \* no such key (in the description of a document)

\* bool(x)
Truthy(x) ==
    CASE x.t = "s" -> x.v # ""
      [] x.t = "l" -> x.v # <<>>
      [] x.t = "t" -> x.v # <<>>
      [] x.t = "m" -> DOMAIN x.v # {}
      [] x.t = "b" -> x.v
      [] x.t = "n" -> FALSE
      [] OTHER -> TRUE

\* d.get(k, default)
Get(d, k, default) == IF k \in DOMAIN d THEN d[k] ELSE default

RECURSIVE PyListItems(_)
PyListItems(q) ==
    IF q = <<>> THEN ""
    ELSE "'" \o Head(q) \o "'" \o (IF Len(q) > 1 THEN ", " ELSE "") \o PyListItems(Tail(q))

\* str(q) of a list of str
PyListRepr(q) == "[" \o PyListItems(q) \o "]"

\* f"{x}" of None or a str
PyStr(x) == IF x.t = "n" THEN "None" ELSE x.v

NoExc == [type |-> "", msg |-> ""]
Exc(type, msg) == [type |-> type, msg |-> msg]
Raised(r) == r.exc.type # ""

\* x.attr or x.method(...) where x has no such attribute
NoAttribute(x, attr) ==
    Exc("AttributeError",
        "'" \o (CASE x.t = "t" -> "tuple" [] x.t = "s" -> "str" [] x.t = "l" -> "list"
                  [] x.t = "n" -> "NoneType" [] OTHER -> "object")
            \o "' object has no attribute '" \o attr \o "'")

---------------------------------------------------------------------------
(* The configuration file and Util.load_yaml_config *)

YamlFile == ".agent-engine.yml"

\* the top-level keys of a document in the order of the file, and the dict
\* yaml.safe_load builds of it
Keys(items) == [i \in 1 .. Len(items) |-> items[i][1]]
FullConfig(items) ==
    [k \in {items[i][1] : i \in 1 .. Len(items)} |->
        items[CHOOSE i \in 1 .. Len(items) : items[i][1] = k][2]]

\* config = yaml.safe_load(file); full_config = config if config is not None else {}
full_config_of(file) ==
    IF file.kind = "empty" THEN EmptyDict ELSE FullConfig(file.items)

\* a list of the keys that leaves the first one out
available_profiles_but_first(file) ==
    IF file.kind = "empty" \/ file.items = <<>> THEN <<>> ELSE Tail(Keys(file.items))

\* available_profiles = list(full_config.keys())
available_profiles(file) ==
    IF file.kind = "empty" THEN <<>> ELSE Keys(file.items)

\* what load_yaml_config returns for a profile of the document
ProfileResult(full_config, profile) == T(<<M(full_config), full_config[profile]>>)

\* a load_yaml_config without the os.path.exists test: open() fails
load_yaml_config_unchecked(file, profile) ==
    IF file.kind = "missing"
    THEN [exc |-> Exc("FileNotFoundError",
                      "[Errno 2] No such file or directory: '" \o file.path \o "'"),
          ret |-> None]
    ELSE IF file.kind = "malformed"
    THEN [exc |-> Exc("YAMLError", "Error parsing YAML file " \o file.path), ret |-> None]
    ELSE LET full_config == full_config_of(file)
         IN IF Truthy(profile)
            THEN IF profile.v \notin DOMAIN full_config
                 THEN [exc |-> Exc("ValueError",
                                   "Profile '" \o profile.v
                                     \o "' not found in YAML config. Available profiles: "
                                     \o PyListRepr(available_profiles(file))),
                       ret |-> None]
                 ELSE [exc |-> NoExc, ret |-> ProfileResult(full_config, profile.v)]
            ELSE [exc |-> NoExc, ret |-> M(full_config)]

\* Util.load_yaml_config(file_path, profile): the exception raised or the
\* value returned
load_yaml_config(file, profile) ==
    IF file.kind = "missing"
    THEN [exc |-> Exc("FileNotFoundError", "Configuration file not found: " \o file.path),
          ret |-> None]
    ELSE IF file.kind = "malformed"
    THEN [exc |-> Exc("YAMLError", "Error parsing YAML file " \o file.path), ret |-> None]
    ELSE LET full_config == full_config_of(file)
         IN IF Truthy(profile)
            THEN IF profile.v \notin DOMAIN full_config
                 THEN [exc |-> Exc("ValueError",
                                   "Profile '" \o profile.v
                                     \o "' not found in YAML config. Available profiles: "
                                     \o PyListRepr(available_profiles(file))),
                       ret |-> None]
                 ELSE [exc |-> NoExc, ret |-> ProfileResult(full_config, profile.v)]
            ELSE [exc |-> NoExc, ret |-> M(full_config)]

---------------------------------------------------------------------------
(* logger.py: the loggers of the logging module.  A logger is its level,   *)
(* the levels of its handlers in the order they were added, and whether it *)
(* propagates; logging.getLogger(name) answers the same object for the     *)
(* same name, a new one being [NOTSET, no handler, propagating].           *)

NOTSET == 0
DEBUG == 10
INFO == 20
WARNING == 30

\* __name__ in core.py, and in the program that imports the library
CoreModule == "vaiae.core"
MainModule == "__main__"
LoggerNames == {"vaiae", CoreModule, MainModule}

NewLogger == [level |-> NOTSET, handlers |-> <<>>, propagate |-> TRUE]
NoLoggers == [n \in LoggerNames |-> NewLogger]

\* get_logger(name, level) called from the module caller: the loggers
\* after the call and the name of the logger returned
get_logger(lg, name, caller, level) ==
    LET n == IF name = None THEN caller ELSE name.v
    IN [name |-> n,
        loggers |-> IF lg[n].handlers = <<>>
                    THEN [lg EXCEPT ![n] = [level |-> level, handlers |-> <<level>>,
                                            propagate |-> FALSE]]
                    ELSE lg]

\* set_log_level(level)
set_log_level(lg, level) ==
    LET vaiae_logger == lg["vaiae"]
    IN [lg EXCEPT !["vaiae"] =
            [level |-> level,
             handlers |-> [i \in DOMAIN vaiae_logger.handlers |-> level],
             propagate |-> vaiae_logger.propagate]]

configure_debug_logging(lg) == set_log_level(lg, DEBUG)
configure_quiet_logging(lg) == set_log_level(lg, WARNING)

\* self.logger = get_logger(level=logging.DEBUG if debug else logging.INFO)
CoreLogger(lg, debug) == get_logger(lg, None, CoreModule, IF debug THEN DEBUG ELSE INFO)

---------------------------------------------------------------------------
(* Core.__init__ and Core._initialize_from_yaml *)

NoCore == [exists |-> FALSE, yaml_file_path |-> None, profile |-> None, config |-> 0,
           project |-> None, location |-> None, staging_bucket |-> None,
           initialized |-> FALSE, client |-> None, app |-> None, logger |-> None]

\* if vertex_ai_config.get(k): self.<k> = vertex_ai_config.get(k)
Setting(vertex_ai_config, k) ==
    IF Truthy(Get(vertex_ai_config, k, None)) THEN vertex_ai_config[k] ELSE None

\* Core(yaml_file_path, profile, debug) on an explicit path: the exception
\* raised, or the new object and the heap that holds its configuration
CoreInit(file, profile, debug) ==
    LET r == load_yaml_config(file, profile)
        failed(e) == [exc |-> e, core |-> NoCore, heap |-> <<>>]
    IN IF Raised(r) THEN failed(r.exc)
       ELSE IF ~IsDict(r.ret) THEN failed(NoAttribute(r.ret, "get"))
       ELSE LET vertex_ai == Get(r.ret.v, "vertex_ai", M(EmptyDict))
            IN IF ~IsDict(vertex_ai) THEN failed(NoAttribute(vertex_ai, "get"))
               ELSE LET st == StoreDict(<<>>, r.ret.v)
                    IN [exc |-> NoExc,
                        heap |-> st.h,
                        core |-> [exists |-> TRUE, yaml_file_path |-> S(file.path),
                                  profile |-> profile,
                                  config |-> st.a,
                                  project |-> Setting(vertex_ai.v, "project"),
                                  location |-> Setting(vertex_ai.v, "location"),
                                  staging_bucket |-> Setting(vertex_ai.v, "staging_bucket"),
                                  initialized |-> FALSE, client |-> None,
                                  app |-> None, logger |-> S(CoreModule)]]

---------------------------------------------------------------------------
(* The platform behind vertexai.Client: agent engines, in the order list   *)
(* returns them.  An engine is [name, display_name]: name is the           *)
(* api_resource.name the platform assigned.                                *)

MaxEngines == 2

Eng(e) == [t |-> "e", v |-> e]
Engines(q) == [t |-> "engines", v |-> q]

EngineName(i) == "reasoningEngines/" \o ToString(i)

\* agent_engines.list(config={"filter": f'display_name="{display_name}"'})
Matching(rem, display_name) ==
    SelectSeq(rem, LAMBDA e : e.display_name = PyStr(display_name))

\* the platform's side of create, update and delete
RemoteCreate(rem, config) ==
    LET used == {rem[i].name : i \in 1 .. Len(rem)}
        i == CHOOSE n \in 1 .. (Len(rem) + 1) : EngineName(n) \notin used
    IN Append(rem, [name |-> EngineName(i),
                    display_name |-> PyStr(Get(config, "display_name", None))])

RemoteUpdate(rem, name, config) ==
    [i \in 1 .. Len(rem) |->
        IF rem[i].name = name
        THEN [rem[i] EXCEPT !.display_name = PyStr(Get(config, "display_name", None))]
        ELSE rem[i]]

RemoteDelete(rem, name) == SelectSeq(rem, LAMBDA e : e.name # name)

Call(fn, args, ret) == [fn |-> fn, args |-> args, ret |-> ret]

Mutating == {"agent_engines.create", "agent_engines.update", "agent_engine.delete"}

---------------------------------------------------------------------------
(* Core's operations.  st is the state of the process and its surroundings *)
(* [heap, core, remote, calls, stderr, out, err, exc, ret]: stderr is what *)
(* sys.stderr is ("real" or "StringIO"), out and err the lines written to  *)
(* the standard output and to the real standard error.  An operation gives *)
(* the state after it, with the exception it raised (or NoExc) and what it *)
(* returned.                                                               *)

IsNone(x) == x.t = "n"

Raise(st, e) == [st EXCEPT !.exc = e, !.ret = None]
Return(st, x) == [st EXCEPT !.exc = NoExc, !.ret = x]
Log(st, c) == [st EXCEPT !.calls = Append(@, c)]

\* an initialisation that does not look at _vertex_ai_initialized
ensure_vertex_ai_initialized_anew(st) ==
    IF Truthy(st.core.project) /\ Truthy(st.core.location)
    THEN LET base == [k \in {"project", "location"} |->
                         IF k = "project" THEN st.core.project ELSE st.core.location]
             init_kwargs ==
                 IF Truthy(st.core.staging_bucket)
                 THEN Put(base, "staging_bucket", S("gs://" \o st.core.staging_bucket.v))
                 ELSE base
             s1 == Log(Log(st, Call("vertexai.init", init_kwargs, None)),
                       Call("vertexai.Client", base, Obj("vertexai.Client")))
         IN [s1 EXCEPT !.core.client = Obj("vertexai.Client"), !.core.initialized = TRUE]
    ELSE st

\* Core._ensure_vertex_ai_initialized
ensure_vertex_ai_initialized(st) ==
    IF st.core.initialized THEN st
    ELSE IF Truthy(st.core.project) /\ Truthy(st.core.location)
    THEN LET base == [k \in {"project", "location"} |->
                         IF k = "project" THEN st.core.project ELSE st.core.location]
             init_kwargs ==
                 IF Truthy(st.core.staging_bucket)
                 THEN Put(base, "staging_bucket", S("gs://" \o st.core.staging_bucket.v))
                 ELSE base
             s1 == Log(Log(st, Call("vertexai.init", init_kwargs, None)),
                       Call("vertexai.Client", base, Obj("vertexai.Client")))
         IN [s1 EXCEPT !.core.client = Obj("vertexai.Client"), !.core.initialized = TRUE]
    ELSE st

\* a get_agent_engine that answers the last match
get_agent_engine_last(st, display_name) ==
    LET s1 == ensure_vertex_ai_initialized(st)
    IN IF IsNone(s1.core.client) THEN Raise(s1, NoAttribute(None, "agent_engines"))
       ELSE LET agent_engine_list == Matching(s1.remote, display_name)
                s2 == Log(s1, Call("agent_engines.list",
                                   [filter |-> S("display_name=\"" \o PyStr(display_name) \o "\"")],
                                   Engines(agent_engine_list)))
            IN Return(s2, IF agent_engine_list # <<>>
                          THEN Eng(agent_engine_list[Len(agent_engine_list)]) ELSE None)

\* a get_agent_engine that finds nothing when there is no client
get_agent_engine_without_client(st, display_name) ==
    LET s1 == ensure_vertex_ai_initialized(st)
    IN IF IsNone(s1.core.client) THEN Return(s1, None)
       ELSE LET agent_engine_list == Matching(s1.remote, display_name)
                s2 == Log(s1, Call("agent_engines.list",
                                   [filter |-> S("display_name=\"" \o PyStr(display_name) \o "\"")],
                                   Engines(agent_engine_list)))
            IN Return(s2, IF agent_engine_list # <<>> THEN Eng(agent_engine_list[1]) ELSE None)

\* Core.get_agent_engine(display_name)
get_agent_engine(st, display_name) ==
    LET s1 == ensure_vertex_ai_initialized(st)
    IN IF IsNone(s1.core.client) THEN Raise(s1, NoAttribute(None, "agent_engines"))
       ELSE LET agent_engine_list == Matching(s1.remote, display_name)
                s2 == Log(s1, Call("agent_engines.list",
                                   [filter |-> S("display_name=\"" \o PyStr(display_name) \o "\"")],
                                   Engines(agent_engine_list)))
            IN Return(s2, IF agent_engine_list # <<>> THEN Eng(agent_engine_list[1]) ELSE None)

\* Core.list_agent_engine()
list_agent_engine(st) ==
    LET s1 == ensure_vertex_ai_initialized(st)
    IN IF IsNone(s1.core.client) THEN Raise(s1, NoAttribute(None, "agent_engines"))
       ELSE Return(Log(s1, Call("agent_engines.list", EmptyDict, Engines(s1.remote))),
                   Engines(s1.remote))

\* a delete that does not look at dry_run
DeleteFoundAnyway(st, agent_engine, force, dry_run) ==
    Return([Log(st, Call("agent_engine.delete",
                         [k \in {"name", "force"} |->
                             IF k = "name" THEN S(agent_engine.name) ELSE B(force)], None))
              EXCEPT !.remote = RemoteDelete(@, agent_engine.name)], None)

\* a delete that always forces
DeleteFoundForced(st, agent_engine, force, dry_run) ==
    IF dry_run THEN Return(st, None)
    ELSE Return([Log(st, Call("agent_engine.delete",
                              [k \in {"name", "force"} |->
                                  IF k = "name" THEN S(agent_engine.name) ELSE B(TRUE)], None))
                   EXCEPT !.remote = RemoteDelete(@, agent_engine.name)], None)

\* Core.delete_agent_engine, from the engine found on: the dry-run return
\* or agent_engine.delete(force=force)
DeleteFound(st, agent_engine, force, dry_run) ==
    IF dry_run THEN Return(st, None)
    ELSE Return([Log(st, Call("agent_engine.delete",
                              [k \in {"name", "force"} |->
                                  IF k = "name" THEN S(agent_engine.name) ELSE B(force)], None))
                   EXCEPT !.remote = RemoteDelete(@, agent_engine.name)], None)

\* a delete_agent_engine whose except clause logs and does not raise again
delete_agent_engine_swallowing(st, name, force, dry_run) ==
    LET g == get_agent_engine(st, name)
    IN IF Raised(g) THEN Return(g, None)
       ELSE IF ~Truthy(g.ret) THEN Return(g, None)
       ELSE DeleteFound(g, g.ret.v, force, dry_run)

\* Core.delete_agent_engine(name, force, dry_run); the except clause logs and
\* raises again
delete_agent_engine(st, name, force, dry_run) ==
    LET g == get_agent_engine(st, name)
    IN IF Raised(g) THEN g
       ELSE IF ~Truthy(g.ret)
       THEN Raise(g, Exc("Exception",
                         "Agent engine with display name '" \o PyStr(name) \o "' not found"))
       ELSE DeleteFound(g, g.ret.v, force, dry_run)

\* an update that is sent again after it was sent
UpdateExistingRetry(st, agent_engine, agent_instance, config_dict, dry_run) ==
    LET c == Call("agent_engines.update",
                  [k \in {"name", "agent", "config"} |->
                      CASE k = "name" -> S(agent_engine.name)
                        [] k = "agent" -> agent_instance
                        [] OTHER -> config_dict], None)
    IN IF dry_run THEN Return(st, None)
       ELSE Return([Log(Log(st, c), c)
                      EXCEPT !.remote = RemoteUpdate(@, agent_engine.name, config_dict.v)], None)

\* Core.create_or_update, when an engine of that display name exists
UpdateExisting(st, agent_engine, agent_instance, config_dict, dry_run) ==
    IF dry_run THEN Return(st, None)
    ELSE Return([Log(st, Call("agent_engines.update",
                              [k \in {"name", "agent", "config"} |->
                                  CASE k = "name" -> S(agent_engine.name)
                                    [] k = "agent" -> agent_instance
                                    [] OTHER -> config_dict], None))
                   EXCEPT !.remote = RemoteUpdate(@, agent_engine.name, config_dict.v)], None)

\* Core.create_or_update, when no engine of that display name exists
CreateNew(st, agent_instance, config_dict, dry_run) ==
    IF dry_run THEN Return(st, None)
    ELSE Return([Log(st, Call("agent_engines.create",
                              [k \in {"agent", "config"} |->
                                  IF k = "agent" THEN agent_instance ELSE config_dict], None))
                   EXCEPT !.remote = RemoteCreate(@, config_dict.v)], None)

\* a create_or_update that takes the create path whenever asked to deploy
ExistingNever(agent_engine) == FALSE

\* if agent_engine:
Existing(agent_engine) == Truthy(agent_engine)

\* Core.create_or_update(agent_instance, config_dict, display_name, dry_run)
create_or_update(st, agent_instance, config_dict, display_name, dry_run) ==
    LET g == get_agent_engine(ensure_vertex_ai_initialized(st), display_name)
    IN IF Raised(g) THEN g
       ELSE IF Existing(g.ret)
       THEN UpdateExisting(g, g.ret.v, agent_instance, config_dict, dry_run)
       ELSE CreateNew(g, agent_instance, config_dict, dry_run)

\* the import paths Util.import_from_string can import
Importable == {"pkg.agent"}

\* Util.import_from_string(import_path)
import_from_string(import_path) ==
    IF import_path \in Importable
    THEN [exc |-> NoExc, ret |-> Obj(import_path)]
    ELSE [exc |-> Exc("ImportError", "Cannot import '" \o import_path \o "'"), ret |-> None]

\* Core._get_agent_instance_from_config(agent_config)
get_agent_instance_from_config(agent_config) ==
    LET agent_instance_path == Get(agent_config, "instance_path", None)
    IN IF Truthy(agent_instance_path)
       THEN import_from_string(agent_instance_path.v)
       ELSE [exc |-> Exc("ValueError",
                         "instance_path must be provided in agent_engine configuration"),
             ret |-> None]

\* the keys _build_agent_engine_config copies when the configuration has them
OptionalKeys ==
    {"labels", "build_options", "identity_type", "service_account", "min_instances",
     "max_instances", "resource_limits", "container_concurrency", "encryption_spec",
     "agent_framework", "psc_interface_config"}

\* Core._build_agent_engine_config(config): the exception raised, or the
\* agent instance and the config dict for create / update
build_agent_engine_config(c, config) ==
    LET agent_config == Get(config, "agent_engine", M(EmptyDict))
    IN IF ~IsDict(agent_config)
       THEN [exc |-> NoAttribute(agent_config, "get"), agent |-> None, config_dict |-> None]
       ELSE LET a == get_agent_instance_from_config(agent_config.v)
                fixed == {"display_name", "description", "requirements", "extra_packages",
                          "gcs_dir_name", "env_vars"}
                bucket == IF Truthy(c.staging_bucket) THEN {"staging_bucket"} ELSE {}
                config_dict ==
                    [k \in fixed \cup bucket \cup (OptionalKeys \cap DOMAIN config) |->
                        CASE k \in {"requirements", "extra_packages"} -> Get(config, k, L(<<>>))
                          [] k = "env_vars" -> Get(config, k, M(EmptyDict))
                          [] k = "staging_bucket" -> S("gs://" \o c.staging_bucket.v)
                          [] OTHER -> Get(config, k, None)]
            IN IF Raised(a) THEN [exc |-> a.exc, agent |-> None, config_dict |-> None]
               ELSE [exc |-> NoExc, agent |-> a.ret, config_dict |-> M(config_dict)]

\* the dict objects a call allocated are garbage once it is over
Collect(st, r) == [r EXCEPT !.heap = SubSeq(@, 1, Len(st.heap))]

\* a create_or_update_from_yaml that looks up the display name of the file
create_or_update_from_yaml_by_file_name(st, dry_run, overrides) ==
    LET applied == IF DOMAIN overrides # {}
                   THEN LET o == StoreDict(st.heap, overrides)
                        IN apply_overrides(o.h, st.core.config, o.a)
                   ELSE [h |-> st.heap, a |-> st.core.config]
        s1 == [st EXCEPT !.heap = applied.h]
        config == Deref(applied.h, applied.a)
        b == build_agent_engine_config(st.core, config)
        config_display_name == Get(Deref(st.heap, st.core.config), "display_name", None)
    IN Collect(st,
         IF Raised(b) THEN Raise(s1, b.exc)
         ELSE IF ~Truthy(config_display_name)
         THEN Raise(s1, Exc("ValueError", "display_name must be provided in YAML config"))
         ELSE create_or_update(s1, b.agent, b.config_dict, config_display_name, dry_run))

\* Core.create_or_update_from_yaml(dry_run, **overrides)
create_or_update_from_yaml(st, dry_run, overrides) ==
    LET applied == IF DOMAIN overrides # {}
                   THEN LET o == StoreDict(st.heap, overrides)
                        IN apply_overrides(o.h, st.core.config, o.a)
                   ELSE [h |-> st.heap, a |-> st.core.config]
        s1 == [st EXCEPT !.heap = applied.h]
        config == Deref(applied.h, applied.a)
        b == build_agent_engine_config(st.core, config)
        config_display_name == Get(config, "display_name", None)
    IN Collect(st,
         IF Raised(b) THEN Raise(s1, b.exc)
         ELSE IF ~Truthy(config_display_name)
         THEN Raise(s1, Exc("ValueError", "display_name must be provided in YAML config"))
         ELSE create_or_update(s1, b.agent, b.config_dict, config_display_name, dry_run))

\* a delete_agent_engine_from_yaml without the check of display_name
delete_agent_engine_from_yaml_unchecked(st, force, dry_run) ==
    delete_agent_engine(st, Get(Deref(st.heap, st.core.config), "display_name", None),
                        force, dry_run)

\* Core.delete_agent_engine_from_yaml(force, dry_run)
delete_agent_engine_from_yaml(st, force, dry_run) ==
    LET config == Deref(st.heap, st.core.config)
        config_display_name == Get(config, "display_name", None)
    IN IF ~Truthy(config_display_name)
       THEN Raise(st, Exc("ValueError", "display_name must be provided in YAML config"))
       ELSE delete_agent_engine(st, config_display_name, force, dry_run)

\* the parameters of Core.delete_agent_engine_from_yaml
DeleteFromYamlParams == {"force", "dry_run"}

\* core.delete_agent_engine_from_yaml(**kwargs): Python binds the arguments
\* (kwargs lists them in the order of the call), then runs the body
delete_agent_engine_from_yaml_call(st, kwargs) ==
    LET unexpected == SelectSeq(kwargs, LAMBDA kv : kv[1] \notin DeleteFromYamlParams)
        given == FullConfig(kwargs)
    IN IF unexpected # <<>>
       THEN Raise(st, Exc("TypeError",
                          "delete_agent_engine_from_yaml() got an unexpected keyword argument '"
                            \o unexpected[1][1] \o "'"))
       ELSE delete_agent_engine_from_yaml(st, Get(given, "force", B(FALSE)).v,
                                          Get(given, "dry_run", B(FALSE)).v)

\* the session app.create_session opens: a dict with the key 'id', or an
\* object with the attribute id
NewSession == "session-new"
SessionObject(id) == [t |-> "session", v |-> [id |-> S(id)]]
Sessions == {M([id |-> S(NewSession)]), SessionObject(NewSession)}

\* session.get("id") if isinstance(session, dict) else session.id
SessionId(session) == IF IsDict(session) THEN Get(session.v, "id", None) ELSE session.v.id

\* a send_message that opens a session for every message
NeedsSessionAlways(session_id) == TRUE

\* if session_id is None:
NeedsSession(session_id) == IsNone(session_id)

\* a loop that prints every part, text or not
TextsEvery(parts) == [i \in 1 .. Len(parts) |-> PyStr(parts[i])]

RECURSIVE Texts(_)
\* for part in parts: text = part.get("text"); if text: print(text)
Texts(parts) ==
    IF parts = <<>> THEN <<>>
    ELSE (IF Truthy(Head(parts)) THEN <<Head(parts).v>> ELSE <<>>) \o Texts(Tail(parts))

RECURSIVE Printed(_)
\* for event in events: the lines printed, an event being its parts' texts
Printed(events) ==
    IF events = <<>> THEN <<>> ELSE Texts(Head(events)) \o Printed(Tail(events))

\* the body of Core.send_message; session is what create_session returns,
\* events what stream_query yields
send_message_body(st, message, session_id, user_id, local, session, events) ==
    LET s1 == ensure_vertex_ai_initialized(st)
        config == Deref(s1.heap, s1.core.config)
        found == IF Truthy(local)
                 THEN LET agent_config == Get(config, "agent_engine", M(EmptyDict))
                          a == get_agent_instance_from_config(agent_config.v)
                      IN IF Raised(a) THEN Raise(s1, a.exc) ELSE Return(s1, Obj("AdkApp"))
                 ELSE get_agent_engine(s1, Get(config, "display_name", None))
    IN IF Raised(found) THEN found
       ELSE LET app == found.ret
                s2 == [found EXCEPT !.core.app = app, !.stderr = "StringIO"]
                s3 == IF NeedsSession(session_id)
                      THEN Log(s2, Call("create_session", [user_id |-> user_id], session))
                      ELSE s2
                sid == IF NeedsSession(session_id) THEN SessionId(session) ELSE session_id
                query_params == [k \in {"user_id", "session_id", "message"} |->
                                    CASE k = "user_id" -> user_id
                                      [] k = "session_id" -> sid
                                      [] OTHER -> message]
            IN IF IsNone(app)
               THEN Raise(s2, NoAttribute(None, IF NeedsSession(session_id) THEN "create_session"
                                                ELSE "stream_query"))
               ELSE Return([Log(s3, Call("stream_query", query_params, T(events)))
                              EXCEPT !.out = @ \o Printed(events)], None)

\* the parameters of Core.send_message
SendMessageParams == {"message", "session_id", "user_id", "local"}

\* core.send_message(**kwargs): Python binds the arguments, then runs the body
send_message(st, kwargs, session, events) ==
    IF DOMAIN kwargs \ SendMessageParams # {}
    THEN Raise(st, Exc("TypeError",
                       "send_message() got an unexpected keyword argument '"
                         \o (CHOOSE k \in DOMAIN kwargs \ SendMessageParams : TRUE) \o "'"))
    ELSE IF "message" \notin DOMAIN kwargs
    THEN Raise(st, Exc("TypeError",
                       "send_message() missing 1 required positional argument: 'message'"))
    ELSE send_message_body(st, kwargs["message"], Get(kwargs, "session_id", None),
                           Get(kwargs, "user_id", None), Get(kwargs, "local", B(FALSE)),
                           session, events)

---------------------------------------------------------------------------
(* The library process: a program that builds one Core on the file and     *)
(* calls its methods.                                                      *)

Rec(dn, va, ae, ev) ==
    SelectSeq(<< <<"display_name", dn>>, <<"vertex_ai", va>>, <<"agent_engine", ae>>,
                 <<"env_vars", ev>> >>, LAMBDA p : p[2] # Absent)

Dict2(k1, v1, k2, v2) == [k \in {k1, k2} |-> IF k = k1 THEN v1 ELSE v2]
Dict1(k1, v1) == [k \in {k1} |-> v1]

FullVertexAi == M(Put(Dict2("project", S("p"), "location", S("l")), "staging_bucket", S("bkt")))
VertexAiChoices == {Absent, M(Dict2("project", S("p"), "location", S("l"))), FullVertexAi}
GoodAgentEngine == M(Dict1("instance_path", S("pkg.agent")))
AgentEngineChoices == {Absent, GoodAgentEngine, M(Dict1("instance_path", S("no.agent")))}
DisplayNameChoices == {Absent, S(""), S("a")}
EnvVars == M(Dict1("V1", S("1")))

\* profile records: every display_name with every agent_engine, and every
\* vertex_ai section
Records ==
    {Rec(dn, FullVertexAi, ae, EnvVars) : dn \in DisplayNameChoices, ae \in AgentEngineChoices}
      \cup {Rec(S("a"), va, GoodAgentEngine, EnvVars) : va \in VertexAiChoices}

FullRecord == Rec(S("a"), FullVertexAi, GoodAgentEngine, EnvVars)
BareRecord == Rec(Absent, Absent, GoodAgentEngine, Absent)

Mapping(items) == [kind |-> "mapping", items |-> items, path |-> YamlFile]

\* the files: documents of profiles, documents that are one record (what a
\* Core built without a profile name holds), and files that do not load
Documents ==
    {Mapping(<< <<"default", M(FullConfig(FullRecord))>> >>),
     Mapping(<< <<"prod", M(FullConfig(BareRecord))>>, <<"default", M(FullConfig(FullRecord))>> >>)}
      \cup {Mapping(r) : r \in Records}
      \cup {[kind |-> k, items |-> <<>>, path |-> YamlFile] : k \in {"missing", "malformed", "empty"}}

\* the profile argument: None and "" (no profile), and profile names
ProfileArgs == {None, S(""), S("default"), S("prod")}
\* the profile a Core is built with: no profile, and profile names
CoreProfiles == {S(""), S("default"), S("prod")}
DisplayNames == {"a", "b"}

RECURSIVE SeqsUpTo(_, _)
SeqsUpTo(X, n) ==
    IF n = 0 THEN {<<>>}
    ELSE SeqsUpTo(X, n - 1) \cup {Append(q, x) : q \in SeqsUpTo(X, n - 1), x \in X}

\* the engines deployed when the program starts
InitRemotes ==
    {[i \in 1 .. Len(q) |-> [name |-> EngineName(i), display_name |-> q[i]]] :
        q \in SeqsUpTo(DisplayNames, MaxEngines)}

\* no file system but the one file (every specification but SpecFind)
NoFs == [place \in {} |-> None]

\* no call of _apply_overrides under way (every specification but SpecMerge)
MergeIdle == [pc |-> "idle", config |-> 0, overrides |-> 0, result |-> 0, again |-> 0,
              before |-> EmptyDict, given |-> EmptyDict]
NoLast == [op |-> "", args |-> EmptyDict, exc |-> NoExc, ret |-> None, out |-> <<>>]
NoCli == [verb |-> "", args |-> EmptyDict, exit |-> 0, out |-> <<>>, err |-> <<>>,
          lib |-> <<>>, exc |-> NoExc]

Init ==
    /\ document \in Documents
    /\ fs = NoFs
    /\ remote \in InitRemotes
    /\ heap = <<>>
    /\ core = NoCore
    /\ calls = <<>>
    /\ last = NoLast
    /\ sys_stderr = "real"
    /\ loggers = NoLoggers
    /\ cli = NoCli
    /\ mg = MergeIdle

\* the state an operation of the library process starts from
St == [heap |-> heap, core |-> core, remote |-> remote, calls |-> <<>>,
       loggers |-> loggers, stderr |-> sys_stderr, out |-> <<>>, err |-> <<>>, exc |-> NoExc, ret |-> None]

\* the state after a library call that ended in r
Done(op, args, r) ==
    /\ Len(r.remote) <= MaxEngines
    /\ heap' = r.heap
    /\ core' = r.core
    /\ remote' = r.remote
    /\ calls' = r.calls
    /\ sys_stderr' = r.stderr
    /\ loggers' = r.loggers
    /\ last' = [op |-> op, args |-> args, exc |-> r.exc, ret |-> r.ret, out |-> r.out]
    /\ cli' = NoCli
    /\ UNCHANGED <<document, fs, mg>>

\* Util.load_yaml_config(yaml_file_path, profile)
LoadYamlConfig ==
    \E profile \in ProfileArgs :
        LET r == load_yaml_config(document, profile)
        IN Done("load_yaml_config", [profile |-> profile],
                [St EXCEPT !.exc = r.exc, !.ret = r.ret])

\* core = Core(yaml_file_path, profile, debug)
Construct ==
    \E profile \in CoreProfiles, debug \in BOOLEAN :
        /\ ~core.exists
        /\ LET r == CoreInit(document, profile, debug)
           IN Done("Core", [profile |-> profile],
                   [St EXCEPT !.exc = r.exc, !.core = r.core, !.heap = r.heap,
                              !.loggers = CoreLogger(loggers, debug).loggers])

AgentInstances == {Obj("pkg.agent")}
ConfigDictOf(display_name) == M(Dict1("display_name", S(display_name)))

\* core.create_or_update(agent_instance, config_dict, display_name, dry_run)
CreateOrUpdate ==
    \E agent_instance \in AgentInstances, display_name \in DisplayNames,
       dry_run \in BOOLEAN :
      LET config_dict == ConfigDictOf(display_name) IN
        /\ core.exists
        /\ Done("create_or_update",
                [k \in {"agent_instance", "config_dict", "display_name", "dry_run"} |->
                    CASE k = "agent_instance" -> agent_instance
                      [] k = "config_dict" -> config_dict
                      [] k = "display_name" -> S(display_name)
                      [] OTHER -> B(dry_run)],
                create_or_update(St, agent_instance, config_dict, S(display_name), dry_run))

Overrides ==
    {EmptyDict, Dict1("display_name", S("b")), Dict1("display_name", S("")),
     Dict1("env_vars", M(Dict1("V2", S("2")))),
     Dict1("vertex_ai", M(Dict1("staging_bucket", S("other"))))}

\* core.create_or_update_from_yaml(dry_run=dry_run, **overrides)
CreateOrUpdateFromYaml ==
    \E dry_run \in BOOLEAN, overrides \in Overrides :
        /\ core.exists
        /\ Done("create_or_update_from_yaml",
                Dict2("dry_run", B(dry_run), "overrides", M(overrides)),
                create_or_update_from_yaml(St, dry_run, overrides))

\* core.delete_agent_engine(name, force, dry_run)
DeleteAgentEngine ==
    \E name \in DisplayNames, force \in BOOLEAN, dry_run \in BOOLEAN :
        /\ core.exists
        /\ Done("delete_agent_engine",
                Put(Dict2("force", B(force), "dry_run", B(dry_run)), "name", S(name)),
                delete_agent_engine(St, S(name), force, dry_run))

\* core.delete_agent_engine_from_yaml(force, dry_run)
DeleteAgentEngineFromYaml ==
    \E force \in BOOLEAN, dry_run \in BOOLEAN :
        /\ core.exists
        /\ Done("delete_agent_engine_from_yaml",
                Dict2("force", B(force), "dry_run", B(dry_run)),
                delete_agent_engine_from_yaml(St, force, dry_run))

\* core.list_agent_engine()
ListAgentEngine ==
    /\ core.exists
    /\ Done("list_agent_engine", EmptyDict, list_agent_engine(St))

\* core.get_agent_engine(display_name)
GetAgentEngine ==
    \E display_name \in DisplayNames :
        /\ core.exists
        /\ Done("get_agent_engine", Dict1("display_name", S(display_name)),
                get_agent_engine(St, S(display_name)))

\* what stream_query yields: events, each the text values of its parts
Streams == {<<>>, << <<S("hi")>> >>, << <<S("a1"), None, S("a2")>>, <<S(""), S("b1")>> >>}

\* core.send_message(message, session_id, user_id, local)
SendMessage ==
    \E session_id \in {None, S("s1")}, local \in BOOLEAN, events \in Streams :
    \E session \in IF NeedsSession(session_id) THEN Sessions ELSE {None} :
        LET kwargs == [k \in SendMessageParams |->
                          CASE k = "message" -> S("hello")
                            [] k = "session_id" -> session_id
                            [] k = "user_id" -> S("user")
                            [] OTHER -> B(local)]
        IN /\ core.exists
           /\ Done("send_message", kwargs, send_message(St, kwargs, session, events))

Next ==
    \/ LoadYamlConfig
    \/ Construct
    \/ CreateOrUpdate
    \/ CreateOrUpdateFromYaml
    \/ DeleteAgentEngine
    \/ DeleteAgentEngineFromYaml
    \/ ListAgentEngine
    \/ GetAgentEngine

Spec == Init /\ [][Next]_vars

---------------------------------------------------------------------------
(* The command line (commands.py).  A run is one process: the group        *)
(* callback builds the Core, then the verb's handler calls it.  p is the   *)
(* process [st, exit, lib, exc]: lib lists the calls of Core's methods the *)
(* handler made, exc is the exception the handler caught.                  *)

\* an echo that writes every line to the standard output
EchoToStdout(st, line, err) == [st EXCEPT !.out = Append(@, line)]

\* click.echo(line, err=err): err=True writes to what sys.stderr is now
Echo(st, line, err) ==
    IF ~err THEN [st EXCEPT !.out = Append(@, line)]
    ELSE IF st.stderr = "real" THEN [st EXCEPT !.err = Append(@, line)]
    ELSE st

RECURSIVE EchoAll(_, _)
EchoAll(st, lines) ==
    IF lines = <<>> THEN st ELSE EchoAll(Echo(st, Head(lines), FALSE), Tail(lines))

LibCall(fn, kwargs, r) == [fn |-> fn, kwargs |-> kwargs, exc |-> r.exc]

\* raise click.Abort(): click prints Aborted! on sys.stderr and exits with 1
Abort(st, lib, e) ==
    [st |-> Echo(st, "Aborted!", TRUE), exit |-> 1, lib |-> lib, exc |-> e]

\* a handler's try block after its library call ended in r: the lines it
\* echoes when the call returned, or the except clause
Handled(r, lib, lines) ==
    IF Raised(r) THEN Abort(Echo(r, "Error: " \o r.exc.msg, TRUE), lib, r.exc)
    ELSE [st |-> EchoAll(r, lines), exit |-> 0, lib |-> lib, exc |-> NoExc]

\* a group callback that reports a failed construction as the handlers
\* report theirs
cli_group_plain_error(st, file, profile, debug) ==
    LET r == CoreInit(file, profile, debug)
        logged == [st EXCEPT !.loggers = CoreLogger(st.loggers, debug).loggers]
    IN IF Raised(r)
       THEN Abort(Echo(logged, "Error: " \o r.exc.msg, TRUE), <<>>, r.exc)
       ELSE [st |-> [logged EXCEPT !.core = r.core, !.heap = r.heap], exit |-> 0,
             lib |-> <<>>, exc |-> NoExc]

\* the group callback cli(ctx, yaml_file, profile, debug)
cli_group(st, file, profile, debug) ==
    LET r == CoreInit(file, profile, debug)
        logged == [st EXCEPT !.loggers = CoreLogger(st.loggers, debug).loggers]
    IN IF Raised(r)
       THEN Abort(Echo(logged, "Error initializing Core: " \o r.exc.msg, TRUE), <<>>, r.exc)
       ELSE [st |-> [logged EXCEPT !.core = r.core, !.heap = r.heap], exit |-> 0,
             lib |-> <<>>, exc |-> NoExc]

\* deploy(ctx, dry_run)
deploy(st, profile, dry_run) ==
    LET r == create_or_update_from_yaml(st, dry_run, EmptyDict)
    IN Handled(r, <<LibCall("create_or_update_from_yaml", Dict1("dry_run", B(dry_run)), r)>>,
               IF dry_run
               THEN <<"Dry run completed for profile '" \o PyStr(profile) \o "'">>
               ELSE <<"Successfully deployed agent engine using profile '"
                        \o PyStr(profile) \o "'">>)

RECURSIVE TableRows(_)
\* the rows of the table, one per engine (the padding of columns left out)
TableRows(agent_engines) ==
    IF agent_engines = <<>> THEN <<>>
    ELSE <<Head(agent_engines).display_name \o "  " \o Head(agent_engines).name
             \o "  N/A  N/A">> \o TableRows(Tail(agent_engines))

\* list(ctx)
list(st) ==
    LET r == list_agent_engine(st)
        agent_engines == r.ret.v
    IN Handled(r, <<LibCall("list_agent_engine", EmptyDict, r)>>,
               IF Raised(r) THEN <<>>
               ELSE IF agent_engines = <<>> THEN <<"No agent engines found.">>
               ELSE <<"Found " \o ToString(Len(agent_engines)) \o " agent engine(s):", "",
                      "Display Name  Resource Name  Create Time  Update Time">>
                      \o TableRows(agent_engines))

\* a delete handler that does not look at --name
delete_by_profile_only(st, profile, name, force, dry_run) ==
    LET r == delete_agent_engine_from_yaml(st, force, dry_run)
    IN Handled(r, <<LibCall("delete_agent_engine_from_yaml",
                            Dict2("force", B(force), "dry_run", B(dry_run)), r)>>,
               IF dry_run
               THEN <<"Dry run completed for profile '" \o PyStr(profile) \o "' deletion">>
               ELSE <<"Successfully deleted agent engine using profile '"
                        \o PyStr(profile) \o "'">>)

\* delete(ctx, name, force, dry_run)
delete(st, profile, name, force, dry_run) ==
    IF Truthy(name)
    THEN LET r == delete_agent_engine(st, name, force, dry_run)
         IN Handled(r, <<LibCall("delete_agent_engine",
                                 Put(Dict2("force", B(force), "dry_run", B(dry_run)),
                                     "name", name), r)>>,
                    IF dry_run
                    THEN <<"Dry run completed for '" \o PyStr(name) \o "' deletion">>
                    ELSE <<"Successfully deleted agent engine '" \o PyStr(name) \o "'">>)
    ELSE LET r == delete_agent_engine_from_yaml(st, force, dry_run)
         IN Handled(r, <<LibCall("delete_agent_engine_from_yaml",
                                 Dict2("force", B(force), "dry_run", B(dry_run)), r)>>,
                    IF dry_run
                    THEN <<"Dry run completed for profile '" \o PyStr(profile)
                             \o "' deletion">>
                    ELSE <<"Successfully deleted agent engine using profile '"
                             \o PyStr(profile) \o "'">>)

\* the keyword arguments send passes to Core.send_message
SendKwargs(message, user_id, session_id, display_name) ==
    [k \in {"message", "display_name", "session_id", "user_id"} |->
        CASE k = "message" -> message
          [] k = "display_name" -> display_name
          [] k = "session_id" -> session_id
          [] OTHER -> user_id]

\* send(ctx, message, user_id, session_id, display_name)
send(st, message, user_id, session_id, display_name, events) ==
    LET kwargs == SendKwargs(message, user_id, session_id, display_name)
        r == send_message(st, kwargs, SessionObject(NewSession), events)
    IN Handled(r, <<LibCall("send_message", kwargs, r)>>, <<>>)

\* the options send declares; click rejects any other with a usage error
SendOptions == {"--message", "--user-id", "--session-id", "--display-name"}

\* click's answer to an option the verb does not declare: exit code 2
UsageError(st, option) ==
    [st |-> Echo(st, "Error: No such option: " \o option, TRUE), exit |-> 2,
     lib |-> <<>>, exc |-> Exc("NoSuchOption", "No such option: " \o option)]

\* a process starts with the real standard error and no Core
Fresh == [heap |-> <<>>, core |-> NoCore, remote |-> remote, calls |-> <<>>,
          loggers |-> NoLoggers, stderr |-> "real", out |-> <<>>, err |-> <<>>, exc |-> NoExc, ret |-> None]

\* main(): the state a run of the command line leaves, p being the process
\* at its exit
Exit(verb, args, p) ==
    /\ Len(p.st.remote) <= MaxEngines
    /\ cli' = [verb |-> verb, args |-> args, exit |-> p.exit, out |-> p.st.out,
               err |-> p.st.err, lib |-> p.lib, exc |-> p.exc]
    /\ remote' = p.st.remote
    /\ calls' = p.st.calls
    /\ sys_stderr' = p.st.stderr
    /\ heap' = p.st.heap
    /\ core' = p.st.core
    /\ loggers' = p.st.loggers
    /\ UNCHANGED <<document, fs, last, mg>>

\* the global options: --yaml-file is given; --profile is "default" when not
\* given
CliProfiles == {S("default"), S("")}

\* the files the command line is run on
CliRecords ==
    {Rec(dn, FullVertexAi, ae, EnvVars) :
        dn \in {Absent, S("a")}, ae \in {GoodAgentEngine, M(Dict1("instance_path", S("no.agent")))}}
      \cup {Rec(S("a"), Absent, GoodAgentEngine, EnvVars)}
CliDocuments ==
    {Mapping(<< <<"default", M(FullConfig(FullRecord))>> >>), [kind |-> "missing", items |-> <<>>, path |-> YamlFile]}
      \cup {Mapping(r) : r \in CliRecords}
CliStreams == {<< <<S("hi")>> >>}

\* vaiae -f FILE --profile P deploy [--dry-run]
CliDeploy ==
    \E profile \in CliProfiles, debug \in BOOLEAN, dry_run \in BOOLEAN :
        LET g == cli_group(Fresh, document, profile, debug)
        IN Exit("deploy", Dict2("profile", profile, "dry_run", B(dry_run)),
                IF g.exit # 0 THEN g ELSE deploy(g.st, profile, dry_run))

\* vaiae -f FILE --profile P list
CliList ==
    \E profile \in CliProfiles :
        LET g == cli_group(Fresh, document, profile, FALSE)
        IN Exit("list", Dict1("profile", profile), IF g.exit # 0 THEN g ELSE list(g.st))

\* vaiae -f FILE --profile P delete [--name N] [--force] [--dry-run]
CliDelete ==
    \E profile \in CliProfiles, name \in {None, S(""), S("a"), S("b")}, force \in BOOLEAN,
       dry_run \in BOOLEAN :
        LET g == cli_group(Fresh, document, profile, FALSE)
        IN Exit("delete",
                [k \in {"profile", "name", "force", "dry_run"} |->
                    CASE k = "profile" -> profile
                      [] k = "name" -> name
                      [] k = "force" -> B(force)
                      [] OTHER -> B(dry_run)],
                IF g.exit # 0 THEN g ELSE delete(g.st, profile, name, force, dry_run))

\* vaiae -f FILE --profile P send -m M -u U [-s S] [-d D] [--local]
CliSend ==
    \E profile \in CliProfiles, session_id \in {None, S("s1")},
       display_name \in {None, S("a")}, local \in BOOLEAN, events \in CliStreams :
        LET g == cli_group(Fresh, document, profile, FALSE)
            args == [k \in {"profile", "message", "user_id", "session_id", "display_name",
                            "local"} |->
                        CASE k = "profile" -> profile
                          [] k = "message" -> S("hello")
                          [] k = "user_id" -> S("user")
                          [] k = "session_id" -> session_id
                          [] k = "display_name" -> display_name
                          [] OTHER -> B(local)]
        IN Exit("send", args,
                IF g.exit # 0 THEN g
                ELSE IF local /\ "--local" \notin SendOptions
                THEN UsageError(g.st, "--local")
                ELSE send(g.st, S("hello"), S("user"), session_id, display_name, events))

InitCli ==
    /\ document \in CliDocuments
    /\ fs = NoFs
    /\ remote \in InitRemotes
    /\ heap = <<>>
    /\ core = NoCore
    /\ calls = <<>>
    /\ last = NoLast
    /\ sys_stderr = "real"
    /\ loggers = NoLoggers
    /\ cli = NoCli
    /\ mg = MergeIdle

NextCli ==
    \/ CliDeploy
    \/ CliList
    \/ CliDelete
    \/ CliSend

SpecCli == InitCli /\ [][NextCli]_vars

---------------------------------------------------------------------------
(* SpecSend: the library process with send_message among its calls, on     *)
(* fewer files.                                                            *)

\* a record that also holds a profile of another display name
MixedRecord ==
    FullRecord \o << <<"prod", M(FullConfig(Rec(S("b"), FullVertexAi, GoodAgentEngine, EnvVars)))>> >>

SendDocuments ==
    {Mapping(FullRecord), Mapping(MixedRecord),
     Mapping(Rec(S("b"), FullVertexAi, M(Dict1("instance_path", S("no.agent"))), EnvVars)),
     Mapping(Rec(Absent, FullVertexAi, Absent, EnvVars)),
     Mapping(Rec(S("a"), Absent, GoodAgentEngine, EnvVars)),
     Mapping(Rec(S("a"), M(Dict1("project", S("p"))), GoodAgentEngine, EnvVars)),
     Mapping(Rec(S("a"), M(Dict2("project", S(""), "location", S("l"))), GoodAgentEngine,
                 EnvVars))}

InitSend ==
    /\ document \in SendDocuments
    /\ fs = NoFs
    /\ remote \in InitRemotes
    /\ heap = <<>>
    /\ core = NoCore
    /\ calls = <<>>
    /\ last = NoLast
    /\ sys_stderr = "real"
    /\ loggers = NoLoggers
    /\ cli = NoCli
    /\ mg = MergeIdle

\* core.create_or_update_from_yaml(yaml_file_path=..., profile=..., dry_run=...),
\* as example_usage.py calls it: the two names fall into **overrides
CreateOrUpdateFromYamlProfile ==
    \E profile \in {"default", "prod"}, dry_run \in BOOLEAN :
        LET overrides == Dict2("yaml_file_path", S(YamlFile), "profile", S(profile))
        IN /\ core.exists
           /\ Done("create_or_update_from_yaml",
                   Dict2("dry_run", B(dry_run), "overrides", M(overrides)),
                   create_or_update_from_yaml(St, dry_run, overrides))

\* core.delete_agent_engine_from_yaml(yaml_file_path=..., profile=...,
\* force=..., dry_run=...), as example_usage.py calls it
DeleteAgentEngineFromYamlProfile ==
    \E profile \in {"default", "prod"}, dry_run \in BOOLEAN :
        LET kwargs == << <<"yaml_file_path", S(YamlFile)>>, <<"profile", S(profile)>>,
                         <<"force", B(FALSE)>>, <<"dry_run", B(dry_run)>> >>
        IN /\ core.exists
           /\ Done("delete_agent_engine_from_yaml", FullConfig(kwargs),
                   delete_agent_engine_from_yaml_call(St, kwargs))

\* core = Core(yaml_file_path=..., profile=...), debug left at its default
ConstructDefault ==
    \E profile \in CoreProfiles :
        /\ ~core.exists
        /\ LET r == CoreInit(document, profile, FALSE)
           IN Done("Core", [profile |-> profile],
                   [St EXCEPT !.exc = r.exc, !.core = r.core, !.heap = r.heap,
                              !.loggers = CoreLogger(loggers, FALSE).loggers])

NextSend ==
    \/ ConstructDefault
    \/ CreateOrUpdateFromYamlProfile
    \/ DeleteAgentEngineFromYamlProfile
    \/ CreateOrUpdateFromYaml
    \/ DeleteAgentEngine
    \/ DeleteAgentEngineFromYaml
    \/ ListAgentEngine
    \/ GetAgentEngine
    \/ SendMessage

SpecSend == InitSend /\ [][NextSend]_vars

---------------------------------------------------------------------------
(* SpecFind: the discovery of the configuration file.  fs gives the file   *)
(* at the path the program may pass and at .agent-engine.yml in the        *)
(* current and in the home directory; a file of kind "missing" is a path   *)
(* at which nothing exists.                                                *)

Places == {"given", "cwd", "home"}
PathAt(place) ==
    CASE place = "given" -> "/etc/vaiae/given.yml"
      [] place = "cwd" -> "/cwd/" \o YamlFile
      [] OTHER -> "/home/" \o YamlFile

\* what may be at a place: nothing, a file yaml cannot parse, or a record
\* whose display_name is the place
FilesAt(place) ==
    {[kind |-> k, items |-> <<>>, path |-> PathAt(place)] : k \in {"missing", "malformed"}}
      \cup {[kind |-> "mapping", path |-> PathAt(place),
             items |-> Rec(S(place), FullVertexAi, GoodAgentEngine, EnvVars)]}

\* os.path.exists(path)
Exists(fsys, place) == fsys[place].kind # "missing"

\* open(file_path): the file at a path
FileAt(fsys, file_path) == fsys[CHOOSE place \in DOMAIN fsys : fsys[place].path = file_path]

\* Util.find_config_file(): the current directory, then the home directory
find_config_file(fsys) ==
    IF Exists(fsys, "cwd") THEN [exc |-> NoExc, ret |-> S(fsys["cwd"].path)]
    ELSE IF Exists(fsys, "home") THEN [exc |-> NoExc, ret |-> S(fsys["home"].path)]
    ELSE [exc |-> Exc("FileNotFoundError",
                      "Configuration file '" \o YamlFile \o "' not found"),
          ret |-> None]

\* a Core.__init__ that searches even when a path is given
CoreNewSearchFirst(fsys, yaml_file_path, profile, debug) ==
    LET f == find_config_file(fsys)
    IN IF ~Raised(f) THEN CoreInit(FileAt(fsys, f.ret.v), profile, debug)
       ELSE IF IsNone(yaml_file_path) THEN [exc |-> f.exc, core |-> NoCore, heap |-> <<>>]
       ELSE CoreInit(FileAt(fsys, yaml_file_path.v), profile, debug)

\* Core(yaml_file_path, profile, debug): the search when no path is given,
\* then the initialisation from the file
CoreNew(fsys, yaml_file_path, profile, debug) ==
    IF IsNone(yaml_file_path)
    THEN LET f == find_config_file(fsys)
         IN IF Raised(f) THEN [exc |-> f.exc, core |-> NoCore, heap |-> <<>>]
            ELSE CoreInit(FileAt(fsys, f.ret.v), profile, debug)
    ELSE CoreInit(FileAt(fsys, yaml_file_path.v), profile, debug)

InitFind ==
    /\ fs \in [Places -> UNION {FilesAt(place) : place \in Places}]
    /\ \A place \in Places : fs[place] \in FilesAt(place)
    /\ document = fs["given"]
    /\ heap = <<>>
    /\ core = NoCore
    /\ remote = <<>>
    /\ calls = <<>>
    /\ last = NoLast
    /\ sys_stderr = "real"
    /\ loggers = NoLoggers
    /\ cli = NoCli
    /\ mg = MergeIdle

\* Util.find_config_file()
FindConfigFile ==
    LET f == find_config_file(fs)
    IN /\ last' = [op |-> "find_config_file", args |-> EmptyDict, exc |-> f.exc,
                   ret |-> f.ret, out |-> <<>>]
       /\ UNCHANGED <<heap, mg, document, fs, core, remote, calls, sys_stderr, loggers, cli>>

\* core = Core(yaml_file_path=..., profile=...), or core = Core(profile=...)
ConstructFound ==
    \E yaml_file_path \in {None, S(PathAt("given"))}, profile \in {S(""), S("default")} :
        LET r == CoreNew(fs, yaml_file_path, profile, FALSE)
        IN /\ core' = r.core
           /\ heap' = r.heap
           /\ last' = [op |-> "Core",
                       args |-> Dict2("yaml_file_path", yaml_file_path, "profile", profile),
                       exc |-> r.exc, ret |-> None, out |-> <<>>]
           /\ loggers' = CoreLogger(loggers, FALSE).loggers
           /\ UNCHANGED <<mg, document, fs, remote, calls, sys_stderr, cli>>

NextFind ==
    \/ FindConfigFile
    \/ ConstructFound

SpecFind == InitFind /\ [][NextFind]_vars

---------------------------------------------------------------------------
(* SpecLog: a program that builds Core objects, any number of them, and    *)
(* sets the log level through logger.py.                                   *)

LogDocuments == {Mapping(FullRecord), [kind |-> "missing", items |-> <<>>, path |-> YamlFile]}
LogLevels == {DEBUG, INFO, WARNING}

InitLog ==
    /\ document \in LogDocuments
    /\ fs = NoFs
    /\ remote = <<>>
    /\ heap = <<>>
    /\ core = NoCore
    /\ calls = <<>>
    /\ last = NoLast
    /\ sys_stderr = "real"
    /\ loggers = NoLoggers
    /\ cli = NoCli
    /\ mg = MergeIdle

\* core = Core(yaml_file_path, profile, debug), whether or not the program
\* holds a Core already: the name keeps the object it had when __init__ raises
ConstructAny ==
    \E profile \in {S(""), S("default")}, debug \in BOOLEAN :
        LET r == CoreInit(document, profile, debug)
        IN Done("Core", Dict2("profile", profile, "debug", B(debug)),
                [St EXCEPT !.exc = r.exc,
                           !.core = IF Raised(r) THEN core ELSE r.core,
                           !.heap = IF Raised(r) THEN heap ELSE r.heap,
                           !.loggers = CoreLogger(loggers, debug).loggers])

\* get_logger(name, level) in the program's own module
GetLogger ==
    \E name \in {None, S("vaiae"), S(CoreModule)}, level \in LogLevels :
        LET g == get_logger(loggers, name, MainModule, level)
        IN Done("get_logger", Dict2("name", name, "level", I(level)),
                [St EXCEPT !.ret = S(g.name), !.loggers = g.loggers])

\* set_log_level(level)
SetLogLevel ==
    \E level \in LogLevels :
        Done("set_log_level", Dict1("level", I(level)),
             [St EXCEPT !.loggers = set_log_level(loggers, level)])

\* configure_debug_logging()
ConfigureDebugLogging ==
    Done("configure_debug_logging", EmptyDict,
         [St EXCEPT !.loggers = configure_debug_logging(loggers)])

\* configure_quiet_logging()
ConfigureQuietLogging ==
    Done("configure_quiet_logging", EmptyDict,
         [St EXCEPT !.loggers = configure_quiet_logging(loggers)])

NextLog ==
    \/ ConstructAny
    \/ GetLogger
    \/ SetLogLevel
    \/ ConfigureDebugLogging
    \/ ConfigureQuietLogging

SpecLog == InitLog /\ [][NextLog]_vars

---------------------------------------------------------------------------
(* SpecMerge: Core._apply_overrides on every record and every override     *)
(* mapping up to a number of entries (a key with its value, at any depth). *)

MaxConfigEntries == 3
MaxOverrideEntries == 2

MergeKeys == {"description", "env_vars"}
MergeLeaves == {S("x"), S("y"), L(<<"x">>)}

RECURSIVE DictsUpTo(_)
\* the dicts over MergeKeys with at most n entries in all
DictsUpTo(n) ==
    IF n = 0 THEN {EmptyDict}
    ELSE LET Values(i) == MergeLeaves \cup {M(f) : f \in DictsUpTo(i)}
             one == {[k \in {key} |-> val] : key \in MergeKeys, val \in Values(n - 1)}
             two == IF n < 2 THEN {}
                    ELSE UNION {
                           {[k \in MergeKeys |-> IF k = "description" THEN p[1] ELSE p[2]] :
                              p \in Values(i) \X Values(n - 2 - i)} : i \in 0 .. (n - 2)}
         IN {EmptyDict} \cup one \cup two

InitMerge ==
    \E c \in DictsUpTo(MaxConfigEntries), o \in DictsUpTo(MaxOverrideEntries) :
        LET sc == StoreDict(<<>>, c)
            so == StoreDict(sc.h, o)
        IN /\ heap = so.h
           /\ mg = [pc |-> "ready", config |-> sc.a, overrides |-> so.a, result |-> 0,
                    again |-> 0,
                    before |-> c, given |-> o]
           /\ document = [kind |-> "missing", items |-> <<>>, path |-> YamlFile]
           /\ fs = NoFs
           /\ core = NoCore
           /\ remote = <<>>
           /\ calls = <<>>
           /\ last = NoLast
           /\ sys_stderr = "real"
           /\ loggers = NoLoggers
           /\ cli = NoCli

\* updated = core._apply_overrides(config, overrides)
ApplyOverrides ==
    /\ mg.pc = "ready"
    /\ LET r == apply_overrides(heap, mg.config, mg.overrides)
       IN /\ heap' = r.h
          /\ mg' = [mg EXCEPT !.pc = "done", !.result = r.a]
          /\ UNCHANGED <<document, fs, core, remote, calls, last, sys_stderr, loggers, cli>>

\* again = core._apply_overrides(updated, overrides)
ApplyOverridesAgain ==
    /\ mg.pc = "done"
    /\ LET r == apply_overrides(heap, mg.result, mg.overrides)
       IN /\ heap' = r.h
          /\ mg' = [mg EXCEPT !.pc = "twice", !.again = r.a]
          /\ UNCHANGED <<document, fs, core, remote, calls, last, sys_stderr, loggers, cli>>

NextMerge ==
    \/ ApplyOverrides
    \/ ApplyOverridesAgain

SpecMerge == InitMerge /\ [][NextMerge]_vars

---------------------------------------------------------------------------
(* Claims about the library (Spec) *)

SameValue(x, y) == x.t = y.t /\ x.v = y.v
StartsWith(line, prefix) ==
    Len(line) >= Len(prefix) /\ SubSeq(line, 1, Len(prefix)) = prefix
Called(fn) == {i \in 1 .. Len(calls) : calls[i].fn = fn}
FilterOf(display_name) == [filter |-> S("display_name=\"" \o PyStr(display_name) \o "\"")]
DryRunOps == {"create_or_update", "create_or_update_from_yaml", "delete_agent_engine",
              "delete_agent_engine_from_yaml"}
FromYamlOps == {"create_or_update_from_yaml", "delete_agent_engine_from_yaml"}
Loads == document.kind \in {"mapping", "empty"}
TopLevelKeys == {document.items[i][1] : i \in 1 .. Len(document.items)}
TopLevel == FullConfig(document.items)

\* C1: a call of create_or_update, create_or_update_from_yaml,
\* delete_agent_engine or delete_agent_engine_from_yaml with dry_run=True
\* makes no create, update or delete call, whatever the platform holds.
C1_DryRunNoMutation ==
    (last.op \in DryRunOps /\ last.args["dry_run"].v) =>
        \A i \in 1 .. Len(calls) : calls[i].fn \notin Mutating

\* C1's case: a dry-run delete that found a matching engine.
C1_Witness ==
    /\ last.op = "delete_agent_engine" /\ last.args["dry_run"].v /\ ~Raised(last)
    /\ \E i \in Called("agent_engines.list") : calls[i].ret.v # <<>>

\* C2: create_or_update with dry_run=False: when the list by display name
\* returned nothing, exactly one create call with the given agent and config
\* and no update; when it returned one engine, exactly one update call with
\* that engine's name and the given agent and config, and no create.
C2_CreateOrUpdateBranch ==
    (last.op = "create_or_update" /\ ~last.args["dry_run"].v) =>
        \A i \in Called("agent_engines.list") :
            LET listed == calls[i].ret.v
                creates == Called("agent_engines.create")
                updates == Called("agent_engines.update")
            IN /\ listed = <<>> =>
                    /\ Cardinality(creates) = 1 /\ updates = {}
                    /\ \A c \in creates :
                          /\ calls[c].args["agent"] = last.args["agent_instance"]
                          /\ calls[c].args["config"] = last.args["config_dict"]
               /\ Len(listed) = 1 =>
                    /\ Cardinality(updates) = 1 /\ creates = {}
                    /\ \A u \in updates :
                          /\ calls[u].args["name"] = S(listed[1].name)
                          /\ calls[u].args["agent"] = last.args["agent_instance"]
                          /\ calls[u].args["config"] = last.args["config_dict"]

\* C2's case: the update path was taken on the one engine the list returned.
C2_Witness ==
    /\ last.op = "create_or_update" /\ ~last.args["dry_run"].v
    /\ \E i \in Called("agent_engines.list") : Len(calls[i].ret.v) = 1
    /\ Called("agent_engines.update") # {}

\* the configuration a from-yaml call resolves: the Core's configuration with
\* the call's overrides applied
ResolvedConfig ==
    IF last.op = "create_or_update_from_yaml" /\ DOMAIN last.args["overrides"].v # {}
    THEN LET o == StoreDict(heap, last.args["overrides"].v)
             r == apply_overrides(o.h, core.config, o.a)
         IN Deref(r.h, r.a)
    ELSE Deref(heap, core.config)
NoDisplayName == last.op \in FromYamlOps /\ ~Truthy(Get(ResolvedConfig, "display_name", None))
DisplayNameError == Exc("ValueError", "display_name must be provided in YAML config")
AgentResolves ==
    LET agent_engine == Get(ResolvedConfig, "agent_engine", M(EmptyDict))
        path == Get(agent_engine.v, "instance_path", None)
    IN Truthy(path) /\ path.v \in Importable

\* C3 as claimed: with no display_name in the resolved configuration (absent
\* or empty) create_or_update_from_yaml and delete_agent_engine_from_yaml
\* fail with 'display_name must be provided in YAML config' and have made no
\* call at all.
C3_DisplayNameErrorAlways ==
    NoDisplayName => (last.exc = DisplayNameError /\ calls = <<>>)

\* C3 as amended: with no display_name in the resolved configuration both
\* calls fail, having made no call at all; the error is 'display_name must be
\* provided in YAML config', except that create_or_update_from_yaml, which
\* resolves the agent instance first, fails with that step's ValueError or
\* ImportError when agent_engine.instance_path is missing or cannot be imported.
C3_FailsBeforeAnyCall ==
    NoDisplayName =>
        /\ Raised(last) /\ calls = <<>>
        /\ (last.op = "delete_agent_engine_from_yaml" \/ AgentResolves)
              => last.exc = DisplayNameError
        /\ (last.op = "create_or_update_from_yaml" /\ ~AgentResolves)
              => /\ last.exc.type \in {"ValueError", "ImportError"}
                 /\ last.exc # DisplayNameError

\* C3's case: a deploy from a configuration without display_name, on a
\* platform that holds engines, stopped by the display_name error.
C3_Witness ==
    /\ NoDisplayName /\ last.op = "create_or_update_from_yaml"
    /\ last.exc = DisplayNameError /\ remote # <<>>

\* C4: a profile name that is not a top-level key of the document makes
\* Util.load_yaml_config, and so the construction of a Core, fail with a
\* ValueError that lists exactly the document's top-level keys; nothing is
\* returned and no Core is built.  (None and "" name no profile: C5.)
C4_ProfileNotFound ==
    (/\ last.op \in {"load_yaml_config", "Core"} /\ Loads
     /\ Truthy(last.args["profile"]) /\ last.args["profile"].v \notin TopLevelKeys) =>
        /\ last.exc.type = "ValueError"
        /\ \E q \in [1 .. Cardinality(TopLevelKeys) -> TopLevelKeys] :
              /\ {q[i] : i \in DOMAIN q} = TopLevelKeys
              /\ last.exc.msg = "Profile '" \o last.args["profile"].v
                                  \o "' not found in YAML config. Available profiles: "
                                  \o PyListRepr(q)
        /\ IsNone(last.ret)
        /\ last.op = "Core" => ~core.exists

\* C4's case: a Core asked for a profile the document, which has other
\* profiles, does not hold.
C4_Witness ==
    /\ last.op = "Core" /\ Loads /\ TopLevelKeys # {}
    /\ Truthy(last.args["profile"]) /\ last.args["profile"].v \notin TopLevelKeys
    /\ last.exc.type = "ValueError"

\* C5: load_yaml_config with a profile that is a top-level key returns that
\* profile's record, document[profile]; without a profile, the full document.
C5_ReturnsProfileRecord ==
    (last.op = "load_yaml_config" /\ Loads) =>
        IF Truthy(last.args["profile"])
        THEN last.args["profile"].v \in TopLevelKeys =>
                /\ ~Raised(last)
                /\ SameValue(last.ret, TopLevel[last.args["profile"].v])
        ELSE ~Raised(last) /\ SameValue(last.ret, M(TopLevel))

\* C6: a Core built on a file with a profile of the file holds that profile's
\* record as config, the record's vertex_ai project, location and
\* staging_bucket, and no client yet.
C6_CoreHoldsProfile ==
    (/\ last.op = "Core" /\ Loads
     /\ Truthy(last.args["profile"]) /\ last.args["profile"].v \in TopLevelKeys
     /\ IsDict(TopLevel[last.args["profile"].v])) =>
        LET record == TopLevel[last.args["profile"].v].v
            vertex_ai == Get(record, "vertex_ai", M(EmptyDict)).v
        IN /\ ~Raised(last) /\ core.exists
           /\ Deref(heap, core.config) = record
           /\ core.project = Get(vertex_ai, "project", None)
           /\ core.location = Get(vertex_ai, "location", None)
           /\ core.staging_bucket = Get(vertex_ai, "staging_bucket", None)
           /\ ~core.initialized /\ IsNone(core.client) /\ calls = <<>>

\* the calls of the platform's engines interface an operation made, in order
EngineCalls == SelectSeq(calls, LAMBDA c : c.fn \notin {"vertexai.init", "vertexai.Client"})
Configured == Truthy(core.project) /\ Truthy(core.location)

\* the display name after the overrides of the last call were applied: the
\* override's when it gives one, else the one of the Core's record
OverriddenDisplayName ==
    IF "display_name" \in DOMAIN last.args["overrides"].v
    THEN last.args["overrides"].v["display_name"]
    ELSE Get(Deref(heap, core.config), "display_name", None)

\* C24: in create_or_update_from_yaml the existence query filters by the
\* display name of the configuration after the overrides, and the config
\* dict of the create or update call has that same display_name.
C24_LookupNameIsConfigName ==
    last.op = "create_or_update_from_yaml" =>
        /\ \A i \in Called("agent_engines.list") :
              calls[i].args = FilterOf(OverriddenDisplayName)
        /\ \A i \in Called("agent_engines.create") \cup Called("agent_engines.update") :
              calls[i].args["config"].v["display_name"] = OverriddenDisplayName

\* C24's case: a deploy overriding the display name 'a' of the file by 'b'
\* found no engine named 'b' and created one.
C24_Witness ==
    /\ last.op = "create_or_update_from_yaml" /\ ~Raised(last)
    /\ Get(last.args["overrides"].v, "display_name", None) = S("b")
    /\ Get(Deref(heap, core.config), "display_name", None) = S("a")
    /\ Called("agent_engines.list") # {} /\ Called("agent_engines.create") # {}

\* the config dict the claim derives from a configuration: the six fields,
\* the staging bucket of its vertex_ai section, the optional keys it has
DerivedConfigDict(config) ==
    LET vertex_ai == Get(config, "vertex_ai", M(EmptyDict))
        staging_bucket == IF IsDict(vertex_ai) THEN Get(vertex_ai.v, "staging_bucket", None)
                          ELSE None
        keys == {"display_name", "description", "requirements", "extra_packages",
                 "gcs_dir_name", "env_vars"}
                  \cup (IF Truthy(staging_bucket) THEN {"staging_bucket"} ELSE {})
                  \cup (OptionalKeys \cap DOMAIN config)
    IN [k \in keys |->
           CASE k \in {"requirements", "extra_packages"} -> Get(config, k, L(<<>>))
             [] k = "env_vars" -> Get(config, k, M(EmptyDict))
             [] k = "staging_bucket" -> S("gs://" \o staging_bucket.v)
             [] OTHER -> Get(config, k, None)]

\* C25: the config dict that create_or_update_from_yaml gives to create or
\* update is the one derived from the configuration after the overrides
\* were merged, entry by entry, the staging bucket included.
C25_OverridesReachRemote ==
    last.op = "create_or_update_from_yaml" =>
        \A i \in Called("agent_engines.create") \cup Called("agent_engines.update") :
            calls[i].args["config"] = M(DerivedConfigDict(ResolvedConfig))

\* the three outcomes after the existence query q of a create_or_update
ThreeWay(q, rest) ==
    IF last.args["dry_run"].v THEN rest = <<>>
    ELSE /\ Len(rest) = 1
         /\ rest[1].fn = (IF q.ret.v # <<>> THEN "agent_engines.update"
                          ELSE "agent_engines.create")

\* C11 as claimed: every create_or_update issues the existence query exactly
\* once, before any mutating call, and then exactly one of: nothing more
\* (dry run), one update (a match), one create (no match).
C11_EveryInvocationQueries ==
    last.op = "create_or_update" =>
        /\ EngineCalls # <<>>
        /\ Head(EngineCalls).fn = "agent_engines.list"
        /\ ThreeWay(Head(EngineCalls), Tail(EngineCalls))

\* C11 as amended: on a Core with project and location, create_or_update
\* issues the existence query (list filtered by the display name) exactly
\* once and first, and then exactly one of: nothing more (dry run), one
\* update (a match), one create (no match); on a Core without project or
\* location it fails with AttributeError and no call is made.
C11_QueryThenThreeWay ==
    last.op = "create_or_update" =>
        IF Configured
        THEN /\ ~Raised(last)
             /\ EngineCalls # <<>>
             /\ Head(EngineCalls).fn = "agent_engines.list"
             /\ Head(EngineCalls).args =
                    [filter |-> S("display_name=\"" \o last.args["display_name"].v \o "\"")]
             /\ ThreeWay(Head(EngineCalls), Tail(EngineCalls))
        ELSE /\ last.exc.type = "AttributeError"
             /\ calls = <<>>

\* C11's case: a deploy, not a dry run, with no match: the query, then one
\* create and nothing else, on a platform that holds another engine.
C11_Witness ==
    /\ last.op = "create_or_update" /\ ~last.args["dry_run"].v /\ Configured
    /\ Len(EngineCalls) = 2 /\ EngineCalls[2].fn = "agent_engines.create"
    /\ Len(remote) > 1

DeleteOps == {"delete_agent_engine", "delete_agent_engine_from_yaml"}
\* the display name a delete looks up: its name argument, or the
\* configuration's display_name
LookedUp ==
    IF last.op = "delete_agent_engine" THEN last.args["name"]
    ELSE Get(Deref(heap, core.config), "display_name", None)

\* C12: delete_agent_engine, when the lookup of the display name finds no
\* engine, raises "Agent engine with display name '<name>' not found" to its
\* caller and makes no delete call, with dry_run and without.
C12_NotFoundRaised ==
    (/\ last.op = "delete_agent_engine"
     /\ \E i \in Called("agent_engines.list") : calls[i].ret.v = <<>>) =>
        /\ last.exc = Exc("Exception", "Agent engine with display name '"
                                         \o last.args["name"].v \o "' not found")
        /\ Called("agent_engine.delete") = {}

\* C12's case: a dry-run delete of a name no engine has, on a platform that
\* holds other engines, ended by the not-found error.
C12_Witness ==
    /\ last.op = "delete_agent_engine" /\ last.args["dry_run"].v /\ remote # <<>>
    /\ \E i \in Called("agent_engines.list") : calls[i].ret.v = <<>>
    /\ Raised(last)

\* C13: delete_agent_engine and delete_agent_engine_from_yaml with
\* dry_run=False, when the lookup finds an engine, call delete exactly once,
\* on the first engine the lookup returned and with the caller's force flag;
\* the lookup is by the name argument, for delete_agent_engine_from_yaml by
\* the configuration's display_name.
C13_DeleteOnceOnLookup ==
    (last.op \in DeleteOps /\ ~last.args["dry_run"].v) =>
        \A i \in Called("agent_engines.list") :
            /\ calls[i].args = FilterOf(LookedUp)
            /\ calls[i].ret.v # <<>> =>
                  /\ Cardinality(Called("agent_engine.delete")) = 1
                  /\ \A d \in Called("agent_engine.delete") :
                        /\ d > i
                        /\ calls[d].args["name"] = S(calls[i].ret.v[1].name)
                        /\ calls[d].args["force"] = last.args["force"]
                  /\ ~Raised(last)

\* C13's case: delete_agent_engine_from_yaml, not forced and not a dry run,
\* deleted the engine of the configuration's display name.
C13_Witness ==
    /\ last.op = "delete_agent_engine_from_yaml"
    /\ ~last.args["dry_run"].v /\ ~last.args["force"].v
    /\ \E i \in Called("agent_engines.list") : calls[i].ret.v # <<>>
    /\ Called("agent_engine.delete") # {}

\* C27: get_agent_engine returns the first engine of the listing by display
\* name, None when the listing is empty.  When the listing has more than one
\* engine, create_or_update and delete_agent_engine (and their from-yaml
\* forms) make no create call, name the first engine of the listing in every
\* update or delete call, and leave every other engine of the listing on the
\* platform as it was.
C27_FirstMatchOnly ==
    \A i \in {c \in Called("agent_engines.list") : "filter" \in DOMAIN calls[c].args} :
        LET listed == calls[i].ret.v
        IN /\ last.op = "get_agent_engine" =>
                 last.ret = IF listed = <<>> THEN None ELSE Eng(listed[1])
           /\ (last.op \in DryRunOps /\ Len(listed) > 1) =>
                 /\ \A j \in 1 .. Len(calls) :
                       calls[j].fn \in Mutating =>
                           /\ calls[j].fn # "agent_engines.create"
                           /\ calls[j].args["name"] = S(listed[1].name)
                 /\ \A k \in 2 .. Len(listed) :
                       \E m \in 1 .. Len(remote) : remote[m] = listed[k]

\* C27's case: of two engines of one display name the first was deleted and
\* the second is still deployed.
C27_Witness ==
    /\ last.op = "delete_agent_engine" /\ ~Raised(last)
    /\ \E i \in Called("agent_engines.list") :
          LET listed == calls[i].ret.v
          IN /\ Len(listed) = 2
             /\ \E d \in Called("agent_engine.delete") :
                   calls[d].args["name"] = S(listed[1].name)
             /\ remote = <<listed[2]>>

\* C19: Util.load_yaml_config keeps the configuration errors apart: a path
\* that does not exist raises FileNotFoundError 'Configuration file not
\* found...', a malformed document raises a YAML error 'Error parsing YAML
\* file...', and an empty file is no error: it loads as {} (so a requested
\* profile is not found, with [] as the available profiles).
C19_ErrorKinds ==
    last.op = "load_yaml_config" =>
        /\ document.kind = "missing" =>
              /\ last.exc.type = "FileNotFoundError"
              /\ StartsWith(last.exc.msg, "Configuration file not found")
        /\ document.kind = "malformed" =>
              /\ last.exc.type = "YAMLError"
              /\ StartsWith(last.exc.msg, "Error parsing YAML file")
        /\ document.kind = "empty" =>
              IF Truthy(last.args["profile"])
              THEN last.exc = Exc("ValueError",
                                  "Profile '" \o last.args["profile"].v
                                    \o "' not found in YAML config. Available profiles: []")
              ELSE ~Raised(last) /\ SameValue(last.ret, M(EmptyDict))

\* C19's case: the empty file loaded without a profile, by a program that
\* holds no Core.
C19_Witness ==
    /\ last.op = "load_yaml_config" /\ document.kind = "empty"
    /\ ~Truthy(last.args["profile"]) /\ ~Raised(last)
    /\ ~core.exists

---------------------------------------------------------------------------
(* Claims about the command line (SpecCli) *)

Verbs == {"deploy", "list", "delete", "send"}
SuccessLines ==
    {i \in 1 .. Len(cli.out) :
        \E n \in 1 .. Len(cli.out[i]) :
            SubSeq(cli.out[i], 1, n) \in {"Successfully", "Dry run completed"}}

\* C9: for deploy, list, delete and send: when the verb's library call
\* returned, the process exits with 0; when it raised, the line
\* 'Error: <message>' is on the process's standard error, no success message
\* is printed and the process exits with 1.
C9_ExitCodes ==
    (cli.verb \in Verbs /\ cli.lib # <<>>) =>
        LET c == cli.lib[Len(cli.lib)]
        IN IF c.exc = NoExc THEN cli.exit = 0
           ELSE /\ cli.exit = 1
                /\ \E i \in 1 .. Len(cli.err) : cli.err[i] = "Error: " \o c.exc.msg
                /\ SuccessLines = {}

\* C9's case: a deploy whose library call raised, reported on the standard
\* error, the process exiting with 1.
C9_Witness ==
    /\ cli.verb = "deploy" /\ cli.lib # <<>> /\ cli.lib[1].exc # NoExc
    /\ cli.exit = 1 /\ cli.err # <<>>

\* C10: send, once the Core is built, calls Core.send_message exactly once
\* with the message, session id and user id of the command line and with
\* local = (--local given), and exits with 0 when that call returned.
C10_SendCallsSendMessage ==
    (cli.verb = "send" /\ core.exists) =>
        /\ Len(cli.lib) = 1
        /\ \A i \in 1 .. Len(cli.lib) :
              LET c == cli.lib[i]
              IN /\ c.fn = "send_message"
                 /\ DOMAIN c.kwargs \subseteq SendMessageParams
                 /\ Get(c.kwargs, "message", Absent) = cli.args["message"]
                 /\ Get(c.kwargs, "session_id", None) = cli.args["session_id"]
                 /\ Get(c.kwargs, "user_id", None) = cli.args["user_id"]
                 /\ Get(c.kwargs, "local", B(FALSE)) = cli.args["local"]
                 /\ c.exc = NoExc => cli.exit = 0

\* C14: the delete verb, once the Core is built, makes exactly one library
\* call: with a (non-empty) --name, delete_agent_engine(name, force,
\* dry_run); without one, delete_agent_engine_from_yaml(force, dry_run); the
\* flags are those of the command line, and when the call returns the one
\* line printed is the dry-run message if --dry-run was given and the
\* success message if not.
C14_DeleteDispatch ==
    (cli.verb = "delete" /\ core.exists) =>
        /\ Len(cli.lib) = 1
        /\ \A i \in 1 .. Len(cli.lib) :
              LET c == cli.lib[i]
                  flags == [k \in {"force", "dry_run"} |-> cli.args[k]]
              IN /\ IF Truthy(cli.args["name"])
                    THEN /\ c.fn = "delete_agent_engine"
                         /\ c.kwargs = Put(flags, "name", cli.args["name"])
                    ELSE /\ c.fn = "delete_agent_engine_from_yaml"
                         /\ c.kwargs = flags
                 /\ c.exc = NoExc =>
                       /\ Len(cli.out) = 1
                       /\ StartsWith(cli.out[1], IF cli.args["dry_run"].v
                                                 THEN "Dry run completed for "
                                                 ELSE "Successfully deleted agent engine ")

\* C14's case: delete --name a --force on a platform that holds engine a:
\* delete_agent_engine was called, returned, and the success message printed.
C14_Witness ==
    /\ cli.verb = "delete" /\ cli.args["name"] = S("a")
    /\ cli.args["force"].v /\ ~cli.args["dry_run"].v
    /\ Len(cli.lib) = 1 /\ cli.lib[1].exc = NoExc
    /\ cli.out = <<"Successfully deleted agent engine 'a'">>

\* the construction of the Core on the file and profile of the run
Construction == CoreInit(document, cli.args["profile"], FALSE)

\* C15: when constructing the Core fails, the command line prints
\* 'Error initializing Core: <message>' on the standard error and exits with
\* 1; the verb's handler does not run: no library call, no remote call,
\* nothing on the standard output.
C15_InitFailureStops ==
    (cli.verb \in Verbs /\ Raised(Construction)) =>
        /\ cli.exit = 1
        /\ cli.err # <<>>
        /\ cli.err[1] = "Error initializing Core: " \o Construction.exc.msg
        /\ cli.lib = <<>>
        /\ calls = <<>>
        /\ cli.out = <<>>
        /\ ~core.exists

\* C15's case: deploy on a file that does not exist, with engines deployed.
C15_Witness ==
    /\ cli.verb = "deploy" /\ document.kind = "missing" /\ remote # <<>>
    /\ Construction.exc.type = "FileNotFoundError"
    /\ cli.exit = 1

---------------------------------------------------------------------------
(* Claims about the library with send_message (SpecSend) *)

\* C17: once a Core is built, no operation (create_or_update_from_yaml with
\* or without overrides, the deletes, list, get, send_message) changes its
\* config, profile, project, location or staging_bucket, and none writes
\* the YAML file.
C17_ConfigNeverChanges ==
    [][core.exists =>
          /\ core'.exists
          /\ core'.config = core.config
          /\ Deref(heap', core'.config) = Deref(heap, core.config)
          /\ core'.profile = core.profile
          /\ core'.project = core.project
          /\ core'.location = core.location
          /\ core'.staging_bucket = core.staging_bucket
          /\ core'.yaml_file_path = core.yaml_file_path
          /\ document' = document]_vars

\* C17's case: a deploy with an override of a nested mapping has changed the
\* platform, after a send_message had run on the same Core.
C17_Witness ==
    /\ last.op = "create_or_update_from_yaml" /\ ~Raised(last)
    /\ "vertex_ai" \in DOMAIN last.args["overrides"].v
    /\ Called("agent_engines.create") # {}
    /\ sys_stderr = "StringIO"
    /\ Deref(heap, core.config) = FullConfig(document.items)

\* the parts with text of a stream, each as <<event, part>>
TextParts(events) ==
    {p \in UNION {{<<i, j>> : j \in 1 .. Len(events[i])} : i \in 1 .. Len(events)} :
        ~IsNone(events[p[1]][p[2]]) /\ events[p[1]][p[2]].v # ""}

\* p is q or comes before it: an earlier event, or an earlier part of the event
NotAfter(p, q) == p[1] < q[1] \/ (p[1] = q[1] /\ p[2] <= q[2])

C22_InitialisedOnce ==
    /\ [](core.initialized <=> ~IsNone(core.client))
    /\ [][LET inits == {i \in 1 .. Len(calls') : calls'[i].fn = "vertexai.init"}
               clients == {i \in 1 .. Len(calls') : calls'[i].fn = "vertexai.Client"}
               vertex_ai == Get(Deref(heap', core'.config), "vertex_ai", M(EmptyDict)).v
               given == Dict2("project", vertex_ai["project"],
                              "location", vertex_ai["location"])
               bucket == Get(vertex_ai, "staging_bucket", None)
           IN /\ Cardinality(inits) <= 1 /\ Cardinality(clients) <= 1
              /\ core.initialized => inits = {} /\ clients = {}
              /\ \A i \in clients : calls'[i].args = given
              /\ \A i \in inits :
                    calls'[i].args =
                        IF IsNone(bucket) \/ bucket.v = "" THEN given
                        ELSE Put(given, "staging_bucket", S("gs://" \o bucket.v))]_vars

\* C22's case: a call on a Core that was initialised by an earlier call has
\* queried the platform without a new initialisation.
C22_Witness ==
    /\ core.initialized /\ last.op = "list_agent_engine" /\ ~Raised(last)
    /\ Called("agent_engines.list") # {}
    /\ Called("vertexai.init") = {} /\ Called("vertexai.Client") = {}
    /\ ~IsNone(core.staging_bucket)

\* the record the Core holds has no project, or no location, to initialise with
Unconfigured ==
    /\ core.exists
    /\ LET vertex_ai == Get(Deref(heap, core.config), "vertex_ai", M(EmptyDict)).v
           missing(k) == k \notin DOMAIN vertex_ai \/ vertex_ai[k] \in {None, S("")}
       IN missing("project") \/ missing("location")

\* the calls that need the platform
RemoteOps ==
    {"get_agent_engine", "list_agent_engine", "create_or_update", "create_or_update_from_yaml",
     "delete_agent_engine", "delete_agent_engine_from_yaml", "send_message"}

\* C23: on a Core whose record lacks vertex_ai.project or
\* vertex_ai.location, the client is never initialised, and get, list,
\* create_or_update, the deletes and a send_message with local=False each
\* raise, having called neither vertexai nor the platform.
C23_UnconfiguredFails ==
    Unconfigured =>
        /\ ~core.initialized /\ IsNone(core.client)
        /\ (/\ last.op \in RemoteOps
            /\ last.op = "send_message" => ~last.args["local"].v) =>
               Raised(last) /\ calls = <<>>

\* C23's case: a dry-run deploy on a record with a project and no location.
C23_Witness ==
    /\ Unconfigured /\ ~IsNone(core.project)
    /\ last.op = "create_or_update_from_yaml" /\ last.args["dry_run"].v
    /\ last.exc.type = "AttributeError"

\* the session calls of the last send_message: with a session_id no
\* create_session, and stream_query gets that id; without one, one
\* create_session(user_id) before stream_query, which gets the id of the
\* session it returned; one stream_query, with the caller's user id and message
SessionThenQuery ==
    LET creates == Called("create_session")
        queries == Called("stream_query")
    IN /\ Cardinality(queries) = 1
       /\ \A q \in queries :
             /\ calls[q].args["user_id"] = last.args["user_id"]
             /\ calls[q].args["message"] = last.args["message"]
             /\ IF IsNone(last.args["session_id"])
                THEN /\ Cardinality(creates) = 1
                     /\ \A c \in creates :
                           /\ c < q
                           /\ calls[c].args = [user_id |-> last.args["user_id"]]
                           /\ calls[q].args["session_id"] =
                                 IF calls[c].ret.t = "m" THEN calls[c].ret.v["id"]
                                 ELSE calls[c].ret.v.id
                ELSE /\ creates = {}
                     /\ calls[q].args["session_id"] = last.args["session_id"]

C29_StderrRestored ==
    last.op = "send_message" => sys_stderr = "real"

\* the profile a from-yaml call names, Absent when it names none
ProfileNamed ==
    IF last.op = "create_or_update_from_yaml"
    THEN Get(last.args["overrides"].v, "profile", Absent)
    ELSE Get(last.args, "profile", Absent)

\* C18: a from-yaml call that names a profile P of the file uses P's
\* record: create_or_update_from_yaml(profile=P, dry_run=True) looks up P's
\* display name and returns, and delete_agent_engine_from_yaml(
\* yaml_file_path=F, profile=P, force=False, dry_run=True) returns when an
\* engine of P's display name is deployed.
C18_CallProfileSelects ==
    (/\ last.op \in FromYamlOps /\ last.args["dry_run"].v
     /\ ProfileNamed # Absent /\ ProfileNamed.v \in TopLevelKeys
     /\ IsDict(TopLevel[ProfileNamed.v])
     /\ Configured) =>
        LET dn == Get(TopLevel[ProfileNamed.v].v, "display_name", None)
        IN /\ last.op = "create_or_update_from_yaml" =>
                 /\ ~Raised(last)
                 /\ \E i \in Called("agent_engines.list") : calls[i].args = FilterOf(dn)
           /\ (last.op = "delete_agent_engine_from_yaml" /\ Matching(remote, dn) # <<>>) =>
                 ~Raised(last)

---------------------------------------------------------------------------
(* Claims about the discovery of the configuration file (SpecFind) *)

\* the place whose file the claim says a construction uses, "" when none
PlaceUsed ==
    IF ~IsNone(last.args["yaml_file_path"]) THEN "given"
    ELSE IF fs["cwd"].kind # "missing" THEN "cwd"
    ELSE IF fs["home"].kind # "missing" THEN "home"
    ELSE ""

\* C16: a Core built with a path uses that path and does not search; built
\* without one it uses .agent-engine.yml of the current directory if that
\* exists, else the one of the home directory; if neither exists the
\* construction fails with a FileNotFoundError that names .agent-engine.yml.
\* Using a file shows as: the Core holds its path and its record, or the
\* construction fails with the error of loading that file.
C16_DiscoveryOrder ==
    last.op = "Core" =>
        IF PlaceUsed = ""
        THEN /\ last.exc = Exc("FileNotFoundError",
                               "Configuration file '.agent-engine.yml' not found")
             /\ ~core.exists
        ELSE LET file == fs[PlaceUsed]
             IN /\ core.exists =>
                      /\ core.yaml_file_path = S(PathAt(PlaceUsed))
                      /\ Get(Deref(heap, core.config), "display_name", None) = S(PlaceUsed)
                /\ file.kind = "missing" =>
                      last.exc = Exc("FileNotFoundError",
                                     "Configuration file not found: " \o PathAt(PlaceUsed))
                /\ file.kind = "malformed" =>
                      last.exc = Exc("YAMLError",
                                     "Error parsing YAML file " \o PathAt(PlaceUsed))
                /\ (file.kind = "mapping" /\ ~Truthy(last.args["profile"])) => core.exists

\* C16's case: no path given, nothing in the current directory, a file in
\* the home directory and another at the path not given: the Core is built
\* on the home directory's file.
C16_Witness ==
    /\ last.op = "Core" /\ IsNone(last.args["yaml_file_path"])
    /\ fs["cwd"].kind = "missing" /\ fs["given"].kind = "mapping"
    /\ core.exists /\ core.yaml_file_path = S(PathAt("home"))

---------------------------------------------------------------------------
(* Claims about the log level (SpecLog) *)

LevelOps == {"set_log_level", "configure_debug_logging", "configure_quiet_logging"}

\* the level the last call of LevelOps asked for
LevelAsked ==
    CASE last.op = "set_log_level" -> last.args["level"].v
      [] last.op = "configure_debug_logging" -> DEBUG
      [] OTHER -> WARNING

\* C20: once set_log_level(L), configure_debug_logging() (L = DEBUG) or
\* configure_quiet_logging() (L = WARNING) has returned, the logger of the
\* Core object the program holds has level L, and so has each of its handlers.
C20_SetLogLevelReachesCore ==
    (last.op \in LevelOps /\ core.exists) =>
        LET logger == loggers[core.logger.v]
        IN /\ logger.level = LevelAsked
           /\ \A i \in DOMAIN logger.handlers : logger.handlers[i] = LevelAsked

\* C30: a Core that was just built has its logger, and the logger's
\* handler, at DEBUG when it was built with debug=True and at INFO when with
\* debug=False, whatever was built before; no logger has more than one
\* handler.
C30_DebugDecidesLevel ==
    /\ \A n \in LoggerNames : Len(loggers[n].handlers) <= 1
    /\ (last.op = "Core" /\ ~Raised(last)) =>
          LET logger == loggers[core.logger.v]
              level == IF last.args["debug"].v THEN DEBUG ELSE INFO
          IN /\ logger.level = level
             /\ \A i \in DOMAIN logger.handlers : logger.handlers[i] = level

---------------------------------------------------------------------------
(* Claims about Core._apply_overrides (SpecMerge) *)

\* C7: after _apply_overrides(config, overrides) the original record holds,
\* at every nesting depth, the value it held before the call, and the result
\* shares no dict with it (it is built on a deep copy).
C7_OriginalUnchanged ==
    mg.pc = "done" =>
        /\ Deref(heap, mg.config) = mg.before
        /\ Reach(heap, mg.result) \cap Reach(heap, mg.config) = {}

\* C7's case: the override names a key inside a nested mapping of the
\* original, and the result differs from the original there.
C7_Witness ==
    /\ mg.pc = "done"
    /\ \E k \in DOMAIN mg.before \cap DOMAIN mg.given :
          /\ IsDict(mg.before[k]) /\ IsDict(mg.given[k])
          /\ \E j \in DOMAIN mg.before[k].v \cap DOMAIN mg.given[k].v :
                Deref(heap, mg.result)[k].v[j] # mg.before[k].v[j]

RECURSIVE Merged(_, _, _)
\* r is c with o merged in: a key of both whose two values are mappings is
\* merged key by key, any other key of o has o's value, every other key of c
\* has c's value, and r has no further key
Merged(c, o, r) ==
    /\ DOMAIN r = DOMAIN c \cup DOMAIN o
    /\ \A k \in DOMAIN r :
          IF k \notin DOMAIN o THEN r[k] = c[k]
          ELSE IF k \in DOMAIN c /\ IsDict(c[k]) /\ IsDict(o[k])
               THEN IsDict(r[k]) /\ Merged(c[k].v, o[k].v, r[k].v)
               ELSE r[k] = o[k]

\* C8: the result of _apply_overrides is the record with the override merged
\* in, mapping against mapping key by key and everything else replaced.
C8_MergeResult ==
    mg.pc = "done" => Merged(mg.before, mg.given, Deref(heap, mg.result))

\* C8's case: a nested mapping was merged: a sibling the override does not
\* name kept its value beside a key the override set.
C8_Witness ==
    /\ mg.pc = "done"
    /\ \E k \in DOMAIN mg.before \cap DOMAIN mg.given :
          /\ IsDict(mg.before[k]) /\ IsDict(mg.given[k])
          /\ \E i \in DOMAIN mg.before[k].v \ DOMAIN mg.given[k].v :
             \E j \in DOMAIN mg.given[k].v :
                /\ Deref(heap, mg.result)[k].v[i] = mg.before[k].v[i]
                /\ Deref(heap, mg.result)[k].v[j] = mg.given[k].v[j]
                /\ i # j

\* C26: applying the overrides to the result of applying them gives a
\* record equal to that result, and applying the empty override mapping
\* gives a record equal to the original.
C26_Idempotent ==
    /\ mg.pc = "twice" => Deref(heap, mg.again) = Deref(heap, mg.result)
    /\ (mg.pc \in {"done", "twice"} /\ mg.given = EmptyDict) =>
           Deref(heap, mg.result) = mg.before

\* C26's case: the second application merged into a nested mapping that the
\* first one had already changed.
C26_Witness ==
    /\ mg.pc = "twice"
    /\ \E k \in DOMAIN mg.before \cap DOMAIN mg.given :
          /\ IsDict(mg.before[k]) /\ IsDict(mg.given[k])
          /\ DOMAIN mg.given[k].v # {} /\ DOMAIN mg.before[k].v # {}
          /\ Deref(heap, mg.result)[k] # mg.before[k]
          /\ Deref(heap, mg.result)[k] # mg.given[k]
          /\ Deref(heap, mg.again)[k] = Deref(heap, mg.result)[k]
          /\ mg.again # mg.result

===========================================================================
